---- MODULE Spec2Model ----
(***************************************************************************)
(* Device communication layer of daring-health-bridge:                     *)
(*   src/context/BluetoothContext.tsx   (BluetoothProvider)                *)
(*   src/hooks/useBluetoothMeasurement.ts (useBluetoothMeasurement)        *)
(*                                                                         *)
(* The React state of the provider and of the measurement hook is the      *)
(* application state.  Every async function is a call that is suspended at *)
(* each `await` of a Web Bluetooth promise; a suspended call is an entry   *)
(* of the bag `inflight` carrying the values its closure captured when it  *)
(* was called (device, notificationCharacteristics[type]) and the await it *)
(* is suspended at.  The Web Bluetooth side is modelled by gattConnected   *)
(* (device.gatt.connected), the listeners registered on device and         *)
(* characteristic objects, and the notification state of the               *)
(* characteristics.                                                        *)
(*                                                                         *)
(* Eight specifications share the state:                                   *)
(*   Spec       the session and the start/stop calls of the hook,          *)
(*   SpecSync   the session and syncData with its initial-sync timer,      *)
(*   SpecNotify one device, the start/stop calls and the notifications     *)
(*              the device sends (decoders of utils/dataParser),           *)
(*   SpecScan   scanForDevices and the connection of a listed device,      *)
(*   SpecFunctions  the decoders of utils/dataParser and the encoders of   *)
(*              utils/bluetoothCommands applied to an argument drawn in    *)
(*              the initial state,                                         *)
(*   SpecData   the session of one device with DataProvider of             *)
(*              src/context/DataContext.tsx: its healthDataUpdate          *)
(*              listener, simulation interval and monitoring toggles,      *)
(*   SpecFacade the session of one device driven through startMeasuring,   *)
(*              stopMeasuring and syncNow of createApiService, the stress  *)
(*              values the device sends and updateHealthData,              *)
(*   SpecDraws  syncData of one device with every combination of the       *)
(*              draws its simulateDataSync calls make.                     *)
(* Math.random() is an input, drawn in hundredths from RandomDraws.         *)
(* DataProvider's listener runs inside window.dispatchEvent and is part of *)
(* the step that dispatches (DataContextFollows).  The callbacks a caller   *)
(* holds are those of the last render and read the state of that render    *)
(* (`closure`); React renders, and runs the simulation effect of           *)
(* DataProvider, after a step: with the step when the render is the next   *)
(* task of the event loop (RenderFollows), as a step of its own (Render)   *)
(* when a timer, a continuation or a call comes first.                     *)
(* `received` logs the notifications handed to the handlers, `delivered`   *)
(* the healthDataUpdate events dispatched on window, in dispatch order;    *)
(* window.dispatchEvent runs the listener of DataContext.tsx before it     *)
(* returns, so `delivered` is also the order in which that listener runs.  *)
(***************************************************************************)
EXTENDS Integers, FiniteSets, Sequences, Bags, TLC

\* ---------------------------------------------------------------- bounds
MaxTasks == 2        \* calls suspended at an await at the same time
MaxCalls == 4        \* provider calls and notifications in one run
MaxBufferLen == 5    \* bytes in a DataView handed to a decoder
MaxEvents == 2       \* events dispatched before a fallback interval stops firing

\* ------------------------------------------------------------- constants
Null == "null"
\* the null of the number-valued state (batteryLevel, lastSyncTime)
NoValue == -1
Devices == {"d1", "d2"}
\* keys of MeasurementState / notificationCharacteristics
MeasurementTypes == {"heartRate", "hrv", "stress", "bloodOxygen"}
\* measurement types the start/stop calls of the model are issued for
TypeInputs == {"heartRate", "hrv"}

VARIABLES
  device,                      \* useState device
  isConnected,                 \* useState isConnected
  isConnecting,                \* useState isConnecting
  isMeasuring,                 \* hook useState isMeasuring
  notificationCharacteristics, \* hook useState notificationCharacteristics
  intervalHandle,              \* window[`${type}Interval`] holds a timer id
  activeTimers,                \* live setInterval timers per type
  gattConnected,               \* device.gatt.connected
  epoch,                       \* connections made to a device so far
  dcListeners,                 \* gattserverdisconnected listeners on a device
  notifying,                   \* characteristic has notifications enabled
  handlers,                    \* characteristicvaluechanged listeners
  inflight,                    \* bag of suspended async calls
  calls,                       \* inputs so far: provider calls, notifications
  batteryLevel,                \* useState batteryLevel
  lastSyncTime,                \* useState lastSyncTime
  syncing,                     \* dataFetchStatus.syncing
  initialSyncTimers,           \* pending setTimeout(() => syncData(), 1000)
  received,                    \* notifications handed to the handlers so far
  delivered,                   \* healthDataUpdate events dispatched so far
  availableDevices,            \* useState availableDevices
  bluetoothAvailable,          \* navigator.bluetooth is defined
  scanToast,                   \* the last toast shown by scanForDevices
  call,                        \* a function of the codec or facade and its argument
  returned,                    \* what that function returned, once applied
  disconnectedToasts,          \* "disconnected" toasts of the last link event
  hasRealData,                 \* DataContext useState hasRealData
  simulationInterval,          \* DataContext's 10 s simulation interval is live
  healthData,                  \* DataContext useState healthData (heartRate)
  isMonitoring,                \* DataContext useState isMonitoring
  closure                      \* state the callbacks of the last render hold

appVars == <<device, isConnected, isConnecting, isMeasuring,
             notificationCharacteristics, intervalHandle, activeTimers>>
envVars == <<gattConnected, epoch, dcListeners, notifying, handlers>>
syncVars == <<batteryLevel, lastSyncTime, syncing, initialSyncTimers>>
eventVars == <<received, delivered>>
scanVars == <<availableDevices, bluetoothAvailable, scanToast>>
functionVars == <<call, returned>>
dataVars == <<hasRealData, simulationInterval, healthData, isMonitoring>>
vars == <<device, isConnected, isConnecting, isMeasuring,
          notificationCharacteristics, intervalHandle, activeTimers,
          gattConnected, epoch, dcListeners, notifying, handlers, inflight,
          calls, batteryLevel, lastSyncTime, syncing, initialSyncTimers,
          received, delivered, availableDevices, bluetoothAvailable,
          scanToast, call, returned, disconnectedToasts, hasRealData,
          simulationInterval, healthData, isMonitoring, closure>>

\* ------------------------------------------------------------ helpers
\* A characteristic object obtained from device d during its e-th connection.
\* Objects of an earlier connection are invalid after a disconnect.
Characteristic(d, e) == [dev |-> d, ep |-> e]
\* the null of notificationCharacteristics
NoCharacteristic == [dev |-> Null, ep |-> 0]

CharacteristicLive(ch) ==
  /\ ch # NoCharacteristic
  /\ gattConnected[ch.dev]
  /\ epoch[ch.dev] = ch.ep

\* A suspended call: op is the function, pc the await it is suspended at,
\* dev the device of its closure, type the measurement type, nc the
\* notificationCharacteristics[type] of its closure, caller the function of
\* createApiService that awaits it (Null when the user interface called).
Call(op, pc, d, type, nc) ==
  [op |-> op, pc |-> pc, dev |-> d, type |-> type, nc |-> nc, caller |-> Null]

Suspended == BagToSet(inflight)

Suspend(t) == inflight (+) SetToBag({t})
Return(t) == inflight (-) SetToBag({t})
Advance(t, pc) == (inflight (-) SetToBag({t})) (+) SetToBag({[t EXCEPT !.pc = pc]})

RECURSIVE CountCalls(_, _)
CountCalls(S, b) ==
  IF S = {} THEN 0
  ELSE LET t == CHOOSE x \in S : TRUE
       IN  CopiesIn(t, b) + CountCalls(S \ {t}, b)

\* number of suspended calls of function op for measurement type `type`
Pending(op, type) ==
  CountCalls({t \in Suspended : t.op = op /\ t.type = type}, inflight)

PendingConnects(d) ==
  CountCalls({t \in Suspended : t.op = "connect" /\ t.dev = d}, inflight)

\* suspended GATT operations (everything but gatt.connect) on device d
PendingGatt(d) == {t \in Suspended : t.op # "connect" /\ t.dev = d}

Room == BagCardinality(inflight) < MaxTasks

\* What the callbacks made by a render close over: the device and
\* isConnected of the provider and the notificationCharacteristics of the
\* hook, as they were when React rendered.  useCallback hands out the
\* callbacks of the last render (their dependencies are these values), so a
\* call made before the render that follows a state change reads the values
\* of the render before it.
Rendered(d, connected, nc) ==
  [device |-> d, isConnected |-> connected, notificationCharacteristics |-> nc]

\* the guard `!device || !device.gatt?.connected` of disconnectDevice and
\* syncData: the device is the one of the closure, gatt.connected is read
\* from the device object when the call is made
NoSession ==
  IF closure.device = Null THEN TRUE ELSE ~gattConnected[closure.device]
Budget == calls < MaxCalls

\* ---------------------------------------------------------------- Init
InitSession ==
  /\ device = Null
  /\ isConnected = FALSE
  /\ isConnecting = FALSE
  /\ isMeasuring = [c \in MeasurementTypes |-> FALSE]
  /\ notificationCharacteristics = [c \in MeasurementTypes |-> NoCharacteristic]
  /\ intervalHandle = [c \in MeasurementTypes |-> FALSE]
  /\ activeTimers = [c \in MeasurementTypes |-> 0]
  /\ gattConnected = [d \in Devices |-> FALSE]
  /\ epoch = [d \in Devices |-> 0]
  /\ dcListeners = [d \in Devices |-> 0]
  /\ notifying = [d \in Devices |-> [c \in MeasurementTypes |-> FALSE]]
  /\ handlers = [d \in Devices |-> [c \in MeasurementTypes |-> 0]]
  /\ inflight = EmptyBag
  /\ calls = 0
  /\ batteryLevel = NoValue
  /\ lastSyncTime = NoValue
  /\ syncing = FALSE
  /\ initialSyncTimers = 0
  /\ received = <<>>
  /\ delivered = <<>>
  /\ closure = Rendered(Null, FALSE, [c \in MeasurementTypes |-> NoCharacteristic])

\* toast.<level>(message); no toast shown yet
Toast(level, message) == [level |-> level, message |-> message]
NoToast == Toast(Null, Null)

\* no function of the codec is being applied
NoCall == [fn |-> Null, arg |-> <<>>]

\* ------------------------------------------------------------------ facade
\* a fulfilled promise (a rejected one carries the message of its error)
Fulfilled == [state |-> "fulfilled"]

FacadeFunctions == {"startMeasuring", "stopMeasuring", "syncNow"}

\* startMeasuring(metric), stopMeasuring(metric) and syncNow() of
\* createApiService: isConnected is the flag of the render, settled the way
\* the awaited provider promise settled.
FacadeResult(fn, metric, connected, settled) ==
  IF ~connected THEN [success |-> FALSE, message |-> "No device connected"]
  ELSE IF settled.state = "fulfilled"
    THEN [success |-> TRUE,
          message |->
            CASE fn = "startMeasuring" -> "Started measuring " \o metric
              [] fn = "stopMeasuring" -> "Stopped measuring " \o metric
              [] fn = "syncNow" -> "Data synchronized successfully"]
  ELSE [success |-> FALSE,
        message |->
          CASE fn = "startMeasuring" ->
                 "Failed to start " \o metric \o " measurement: " \o settled.message
            [] fn = "stopMeasuring" ->
                 "Failed to stop " \o metric \o " measurement: " \o settled.message
            [] fn = "syncNow" -> "Failed to sync data: " \o settled.message]

\* The promise of the provider call t is fulfilled (startMeasurement,
\* stopMeasurement and syncData catch every rejection and return): the
\* function of createApiService that awaits it, if any, resumes after its
\* await and returns its result.
FacadeReturns(t) ==
  IF t.caller = Null
    THEN UNCHANGED <<call, returned>>
    ELSE /\ call' = [fn |-> t.caller, arg |-> t.type]
         /\ returned' = {FacadeResult(t.caller, t.type, TRUE, Fulfilled)}

\* keys of isMonitoring
MonitoringTypes == {"heartRate", "hrv", "steps", "sleep", "stress"}

\* initialHealthData.heartRate
HeartRateRecord(current, min, max) == [current |-> current, min |-> min, max |-> max]
initialHealthData == [heartRate |-> HeartRateRecord(72, 58, 120)]

\* DataProvider after its first render
InitData ==
  /\ disconnectedToasts = 0
  /\ hasRealData = FALSE
  /\ simulationInterval = FALSE
  /\ healthData = initialHealthData
  /\ isMonitoring = [m \in MonitoringTypes |-> FALSE]

\* The provider after its first render, on a host with Web Bluetooth.
Init ==
  /\ InitSession
  /\ InitData
  /\ availableDevices = <<>>
  /\ bluetoothAvailable = TRUE
  /\ scanToast = NoToast
  /\ call = NoCall
  /\ returned = {}

\* ------------------------------------------------------------ DataContext
\* handleHealthDataUpdate, case 'heartRate', with min and max left as they are
HandleHeartRateKeepsBounds(prev, current) ==
  HeartRateRecord(current, prev.min, prev.max)

\* handleHealthDataUpdate, case 'heartRate': current is data.current
HandleHeartRate(prev, current) ==
  HeartRateRecord(current,
                  IF current < prev.min THEN current ELSE prev.min,
                  IF current > prev.max THEN current ELSE prev.max)

\* setHealthData of handleHealthDataUpdate for one event: only the heart
\* rate record is kept in the model
HandleHealthDataUpdate(prev, event) ==
  IF event.type = "heartRate"
    THEN [prev EXCEPT !.heartRate = HandleHeartRate(@, event.value)]
    ELSE prev

\* the listener run for the events of one dispatching step, in their order
RECURSIVE HandleAll(_, _)
HandleAll(prev, events) ==
  IF events = <<>> THEN prev
  ELSE HandleAll(HandleHealthDataUpdate(prev, Head(events)), Tail(events))

\* the simulation effect of DataProvider: after it ran, its interval is live
\* iff the session is connected and no real data was seen
SimulationEffect(connected, real) == connected /\ ~real

\* The render that follows a step.  React renders in a task of its own:
\* either it has not run when the next step is taken (the callbacks and the
\* simulation interval are those of the render before), or it has: the
\* callbacks close over the new state and the simulation effect (clean-up,
\* then its body) has run.
RenderFollows ==
  \/ /\ closure' = closure
     /\ simulationInterval' = simulationInterval
  \/ /\ closure' = Rendered(device', isConnected', notificationCharacteristics')
     /\ simulationInterval' = SimulationEffect(isConnected', hasRealData')

\* What DataProvider does in a step of the provider or the hook that
\* dispatches `events`: window.dispatchEvent runs handleHealthDataUpdate for
\* each; then the render follows.
DataContextFollows(events) ==
  /\ hasRealData' = (hasRealData \/ \E i \in DOMAIN events : events[i].isReal)
  /\ healthData' = HandleAll(healthData, events)
  /\ RenderFollows

\* What a disconnect of d does to the characteristic objects of d: the
\* notifications end and the objects (with their listeners) are dropped.
DropCharacteristics(f, d, v) == [f EXCEPT ![d] = [c \in MeasurementTypes |-> v]]

\* --------------------------------------------------------- connectToDevice
\* connectToDevice up to `await deviceToConnect.gatt?.connect()`
ConnectCall(d) ==
  /\ Budget
  /\ Room
  /\ isConnecting' = TRUE
  /\ inflight' = Suspend(Call("connect", "gattConnect", d, Null, NoCharacteristic))
  /\ UNCHANGED <<device, isConnected, isMeasuring, notificationCharacteristics,
                 intervalHandle, activeTimers>>
  /\ UNCHANGED envVars
  /\ calls' = calls + 1
  /\ UNCHANGED syncVars
  /\ UNCHANGED eventVars
  /\ UNCHANGED <<scanVars, functionVars>>
  /\ DataContextFollows(<<>>)
  /\ UNCHANGED disconnectedToasts
  /\ UNCHANGED isMonitoring

\* gatt.connect() resolved: setDevice, setIsConnected(true), the
\* gattserverdisconnected listener is added, finally setIsConnecting(false).
\* setTimeout schedules the initial sync (InitialSyncFires).
\* The rejections of the GATT operations that a disconnect of d aborted are
\* delivered before a later connection to d is established.
ConnectOk(t) ==
  /\ t \in Suspended
  /\ t.op = "connect"
  /\ gattConnected[t.dev] \/ PendingGatt(t.dev) = {}
  /\ gattConnected' = [gattConnected EXCEPT ![t.dev] = TRUE]
  /\ epoch' = [epoch EXCEPT ![t.dev] = IF gattConnected[t.dev] THEN @ ELSE @ + 1]
  /\ device' = t.dev
  /\ isConnected' = TRUE
  /\ dcListeners' = [dcListeners EXCEPT ![t.dev] = @ + 1]
  /\ isConnecting' = FALSE
  /\ inflight' = Return(t)
  /\ UNCHANGED <<isMeasuring, notificationCharacteristics, intervalHandle,
                 activeTimers, notifying, handlers>>
  /\ UNCHANGED calls
  /\ initialSyncTimers' = initialSyncTimers + 1
  /\ UNCHANGED <<batteryLevel, lastSyncTime, syncing>>
  /\ UNCHANGED eventVars
  /\ UNCHANGED <<scanVars, functionVars>>
  /\ DataContextFollows(<<>>)
  /\ UNCHANGED disconnectedToasts
  /\ UNCHANGED isMonitoring

\* gatt.connect() rejected (or gatt undefined): catch, finally
ConnectFail(t) ==
  /\ t \in Suspended
  /\ t.op = "connect"
  /\ ~gattConnected[t.dev]
  /\ isConnecting' = FALSE
  /\ inflight' = Return(t)
  /\ UNCHANGED <<device, isConnected, isMeasuring, notificationCharacteristics,
                 intervalHandle, activeTimers>>
  /\ UNCHANGED envVars
  /\ UNCHANGED calls
  /\ UNCHANGED syncVars
  /\ UNCHANGED eventVars
  /\ UNCHANGED <<scanVars, functionVars>>
  /\ DataContextFollows(<<>>)
  /\ UNCHANGED disconnectedToasts
  /\ UNCHANGED isMonitoring

\* -------------------------------------------------------- disconnectDevice
\* disconnectDevice up to its await, `device` being the device of its
\* closure: device.gatt.disconnect() closes the link and fires
\* gattserverdisconnected at the device, whose listeners run
\* setIsConnected(false) and show their toast; the function is then suspended
\* at `await device.gatt.disconnect()`.
DisconnectDevice ==
  /\ Budget
  /\ Room
  /\ closure.device # Null
  /\ gattConnected[closure.device]
  /\ gattConnected' = [gattConnected EXCEPT ![closure.device] = FALSE]
  /\ notifying' = DropCharacteristics(notifying, closure.device, FALSE)
  /\ handlers' = DropCharacteristics(handlers, closure.device, 0)
  /\ isConnected' = IF dcListeners[closure.device] > 0 THEN FALSE ELSE isConnected
  /\ inflight' = Suspend(Call("disconnect", "gattDisconnect", closure.device, Null,
                              NoCharacteristic))
  /\ UNCHANGED <<device, isConnecting, isMeasuring, notificationCharacteristics,
                 intervalHandle, activeTimers, epoch, dcListeners>>
  /\ calls' = calls + 1
  /\ UNCHANGED syncVars
  /\ UNCHANGED eventVars
  /\ UNCHANGED <<scanVars, functionVars>>
  /\ DataContextFollows(<<>>)
  /\ disconnectedToasts' = dcListeners[closure.device]
  /\ UNCHANGED isMonitoring

\* disconnectDevice after its await: setIsConnected(false), toast.success.
\* Continuations of other calls may have run since the link was closed.
DisconnectSettled(t) ==
  /\ t \in Suspended
  /\ t.op = "disconnect"
  /\ isConnected' = FALSE
  /\ inflight' = Return(t)
  /\ UNCHANGED <<device, isConnecting, isMeasuring, notificationCharacteristics,
                 intervalHandle, activeTimers>>
  /\ UNCHANGED envVars
  /\ UNCHANGED calls
  /\ UNCHANGED syncVars
  /\ UNCHANGED eventVars
  /\ UNCHANGED <<scanVars, functionVars>>
  /\ DataContextFollows(<<>>)
  /\ UNCHANGED disconnectedToasts
  /\ UNCHANGED isMonitoring

\* With no device, or a device whose gatt is not connected, disconnectDevice
\* skips its body: nothing is thrown and no setter runs.
DisconnectNoSession ==
  /\ Budget
  /\ NoSession
  /\ calls' = calls + 1
  /\ UNCHANGED <<appVars, envVars, syncVars, eventVars, inflight>>
  /\ UNCHANGED <<scanVars, functionVars>>
  /\ DataContextFollows(<<>>)
  /\ UNCHANGED disconnectedToasts
  /\ UNCHANGED isMonitoring

\* The link to d is lost: every gattserverdisconnected listener registered by
\* connectToDevice runs setIsConnected(false).
LinkLoss(d) ==
  /\ gattConnected[d]
  /\ gattConnected' = [gattConnected EXCEPT ![d] = FALSE]
  /\ notifying' = DropCharacteristics(notifying, d, FALSE)
  /\ handlers' = DropCharacteristics(handlers, d, 0)
  /\ isConnected' = IF dcListeners[d] > 0 THEN FALSE ELSE isConnected
  /\ UNCHANGED <<device, isConnecting, isMeasuring, notificationCharacteristics,
                 intervalHandle, activeTimers, epoch, dcListeners, inflight>>
  /\ UNCHANGED calls
  /\ UNCHANGED syncVars
  /\ UNCHANGED eventVars
  /\ UNCHANGED <<scanVars, functionVars>>
  /\ DataContextFollows(<<>>)
  /\ disconnectedToasts' = dcListeners[d]
  /\ UNCHANGED isMonitoring

\* ------------------------------------------------ simulated-data intervals
\* startMeasurement, `if (!success)`: setInterval and store its id in
\* window[`${type}Interval`] (the id stored before is overwritten)
\* (window gets the property when it has none under that key)
StoreInterval(h, type) ==
  [k \in DOMAIN h \cup {type} |-> IF k = type THEN TRUE ELSE h[k]]
TimersAfterSetInterval(n, type) ==
  [k \in DOMAIN n \cup {type} |->
     IF k = type THEN (IF type \in DOMAIN n THEN n[type] + 1 ELSE 1) ELSE n[k]]

\* stopMeasurement: clearInterval(window[`${type}Interval`]) when it is set
\* (a key window has no property for reads undefined: nothing is cleared)
ClearedHandle(h, type) ==
  IF type \in DOMAIN h THEN [h EXCEPT ![type] = FALSE] ELSE h
TimersAfterClearInterval(n, h, type) ==
  IF type \in DOMAIN h /\ h[type] THEN [n EXCEPT ![type] = @ - 1] ELSE n

\* ------------------------------------------------------- startMeasurement
\* startMeasurement(type) of the provider calling start<Type>Measurement of
\* the hook, both with the device and isConnected of their closure.  Without
\* a device or with isConnected false the provider returns at once.  The
\* hook tests device.gatt.connected: with the link open it suspends at
\* getPrimaryService/getCharacteristic of the measurement characteristic;
\* with the link closed it returns false without a GATT operation, the
\* provider starts the simulated-data interval and its promise is fulfilled.
\* A type that matches no case of the switch (the parameter is typed, the
\* value is not checked) leaves success false without a call of the hook.
StartMeasurementCall(type, caller) ==
  /\ Budget
  /\ closure.device # Null
  /\ closure.isConnected
  /\ IF type \in MeasurementTypes /\ gattConnected[closure.device]
       THEN /\ Room
            /\ inflight' =
                 Suspend([Call("start", "getCharacteristic", closure.device,
                               type, NoCharacteristic)
                            EXCEPT !.caller = caller])
            /\ UNCHANGED appVars
            /\ UNCHANGED functionVars
       ELSE /\ inflight' = inflight
            /\ activeTimers' = TimersAfterSetInterval(activeTimers, type)
            /\ intervalHandle' = StoreInterval(intervalHandle, type)
            /\ UNCHANGED <<device, isConnected, isConnecting, isMeasuring,
                           notificationCharacteristics>>
            /\ FacadeReturns([caller |-> caller, type |-> type])
  /\ UNCHANGED envVars
  /\ calls' = calls + 1
  /\ UNCHANGED syncVars
  /\ UNCHANGED eventVars
  /\ UNCHANGED scanVars
  /\ DataContextFollows(<<>>)
  /\ UNCHANGED disconnectedToasts

\* startMeasurement(type) called from the user interface
StartCall(type) == StartMeasurementCall(type, Null) /\ UNCHANGED isMonitoring

\* the measurement characteristic was resolved; next await: startNotifications
StartResolved(t) ==
  /\ t \in Suspended
  /\ t.op = "start"
  /\ t.pc = "getCharacteristic"
  /\ gattConnected[t.dev]
  /\ inflight' = Advance(t, "startNotifications")
  /\ UNCHANGED appVars
  /\ UNCHANGED envVars
  /\ UNCHANGED calls
  /\ UNCHANGED syncVars
  /\ UNCHANGED eventVars
  /\ UNCHANGED <<scanVars, functionVars>>
  /\ DataContextFollows(<<>>)
  /\ UNCHANGED disconnectedToasts
  /\ UNCHANGED isMonitoring

\* StartSubscribed with the flag raised as soon as the subscription is made
\* (setIsMeasuring(true) moved before the command write)
StartSubscribedFlagEarly(t) ==
  /\ t \in Suspended
  /\ t.op = "start"
  /\ t.pc = "startNotifications"
  /\ gattConnected[t.dev]
  /\ notifying' = [notifying EXCEPT ![t.dev][t.type] = TRUE]
  /\ notificationCharacteristics' =
       [notificationCharacteristics EXCEPT
          ![t.type] = Characteristic(t.dev, epoch[t.dev])]
  /\ handlers' = [handlers EXCEPT ![t.dev][t.type] = @ + 1]
  /\ isMeasuring' = [isMeasuring EXCEPT ![t.type] = TRUE]
  /\ inflight' = Advance(t, "getControl")
  /\ UNCHANGED <<device, isConnected, isConnecting,
                 intervalHandle, activeTimers, gattConnected, epoch,
                 dcListeners>>
  /\ UNCHANGED calls
  /\ UNCHANGED syncVars
  /\ UNCHANGED eventVars
  /\ UNCHANGED <<scanVars, functionVars>>
  /\ DataContextFollows(<<>>)
  /\ UNCHANGED disconnectedToasts
  /\ UNCHANGED isMonitoring

\* startNotifications resolved: the characteristic is stored, the
\* characteristicvaluechanged handler is added; next await: the control
\* characteristic
StartSubscribed(t) ==
  /\ t \in Suspended
  /\ t.op = "start"
  /\ t.pc = "startNotifications"
  /\ gattConnected[t.dev]
  /\ notifying' = [notifying EXCEPT ![t.dev][t.type] = TRUE]
  /\ notificationCharacteristics' =
       [notificationCharacteristics EXCEPT
          ![t.type] = Characteristic(t.dev, epoch[t.dev])]
  /\ handlers' = [handlers EXCEPT ![t.dev][t.type] = @ + 1]
  /\ inflight' = Advance(t, "getControl")
  /\ UNCHANGED <<device, isConnected, isConnecting, isMeasuring,
                 intervalHandle, activeTimers, gattConnected, epoch,
                 dcListeners>>
  /\ UNCHANGED calls
  /\ UNCHANGED syncVars
  /\ UNCHANGED eventVars
  /\ UNCHANGED <<scanVars, functionVars>>
  /\ DataContextFollows(<<>>)
  /\ UNCHANGED disconnectedToasts
  /\ UNCHANGED isMonitoring

\* the control characteristic was resolved; next await: writeValue(START_*)
StartControlResolved(t) ==
  /\ t \in Suspended
  /\ t.op = "start"
  /\ t.pc = "getControl"
  /\ gattConnected[t.dev]
  /\ inflight' = Advance(t, "writeValue")
  /\ UNCHANGED appVars
  /\ UNCHANGED envVars
  /\ UNCHANGED calls
  /\ UNCHANGED syncVars
  /\ UNCHANGED eventVars
  /\ UNCHANGED <<scanVars, functionVars>>
  /\ DataContextFollows(<<>>)
  /\ UNCHANGED disconnectedToasts
  /\ UNCHANGED isMonitoring

\* StartWritten with the flags replaced as a whole: the flag of the type set
\* and the others cleared (setIsMeasuring without the functional update)
StartWrittenReplacesFlags(t) ==
  /\ t \in Suspended
  /\ t.op = "start"
  /\ t.pc = "writeValue"
  /\ gattConnected[t.dev]
  /\ isMeasuring' = [c \in MeasurementTypes |-> c = t.type]
  /\ inflight' = Return(t)
  /\ UNCHANGED <<device, isConnected, isConnecting, notificationCharacteristics,
                 intervalHandle, activeTimers>>
  /\ UNCHANGED envVars
  /\ UNCHANGED calls
  /\ UNCHANGED syncVars
  /\ UNCHANGED eventVars
  /\ UNCHANGED scanVars
  /\ FacadeReturns(t)
  /\ DataContextFollows(<<>>)
  /\ UNCHANGED disconnectedToasts
  /\ UNCHANGED isMonitoring

\* writeValue resolved: setIsMeasuring(true), return true
StartWritten(t) ==
  /\ t \in Suspended
  /\ t.op = "start"
  /\ t.pc = "writeValue"
  /\ gattConnected[t.dev]
  /\ isMeasuring' = [isMeasuring EXCEPT ![t.type] = TRUE]
  /\ inflight' = Return(t)
  /\ UNCHANGED <<device, isConnected, isConnecting, notificationCharacteristics,
                 intervalHandle, activeTimers>>
  /\ UNCHANGED envVars
  /\ UNCHANGED calls
  /\ UNCHANGED syncVars
  /\ UNCHANGED eventVars
  /\ UNCHANGED scanVars
  /\ FacadeReturns(t)
  /\ DataContextFollows(<<>>)
  /\ UNCHANGED disconnectedToasts
  /\ UNCHANGED isMonitoring

\* any of the awaits rejected: catch, return false; the provider starts the
\* simulated-data interval
StartFailed(t) ==
  /\ t \in Suspended
  /\ t.op = "start"
  /\ activeTimers' = TimersAfterSetInterval(activeTimers, t.type)
  /\ intervalHandle' = StoreInterval(intervalHandle, t.type)
  /\ inflight' = Return(t)
  /\ UNCHANGED <<device, isConnected, isConnecting, isMeasuring,
                 notificationCharacteristics>>
  /\ UNCHANGED envVars
  /\ UNCHANGED calls
  /\ UNCHANGED syncVars
  /\ UNCHANGED eventVars
  /\ UNCHANGED scanVars
  /\ FacadeReturns(t)
  /\ DataContextFollows(<<>>)
  /\ UNCHANGED disconnectedToasts
  /\ UNCHANGED isMonitoring

\* -------------------------------------------------------- stopMeasurement
\* stopMeasurement(type) of the provider calling stop<Type>Measurement of the
\* hook, both with the device and isConnected of their closure, the hook
\* with the notificationCharacteristics[type] of its closure.  Without a
\* device or with isConnected false the provider returns at once.  The hook
\* tests device.gatt.connected: with the link open it suspends at
\* getPrimaryService/getCharacteristic of the control characteristic; with
\* the link closed it returns false without a GATT operation, the provider
\* clears the interval stored for the type and its promise is fulfilled.
\* A type that matches no case of the switch goes to the interval at once.
StopMeasurementCall(type, caller) ==
  /\ Budget
  /\ closure.device # Null
  /\ closure.isConnected
  /\ IF type \in MeasurementTypes /\ gattConnected[closure.device]
       THEN /\ Room
            /\ inflight' =
                 Suspend([Call("stop", "getControl", closure.device, type,
                               closure.notificationCharacteristics[type])
                            EXCEPT !.caller = caller])
            /\ UNCHANGED appVars
            /\ UNCHANGED functionVars
       ELSE /\ inflight' = inflight
            /\ activeTimers' =
                 TimersAfterClearInterval(activeTimers, intervalHandle, type)
            /\ intervalHandle' = ClearedHandle(intervalHandle, type)
            /\ UNCHANGED <<device, isConnected, isConnecting, isMeasuring,
                           notificationCharacteristics>>
            /\ FacadeReturns([caller |-> caller, type |-> type])
  /\ UNCHANGED envVars
  /\ calls' = calls + 1
  /\ UNCHANGED syncVars
  /\ UNCHANGED eventVars
  /\ UNCHANGED scanVars
  /\ DataContextFollows(<<>>)
  /\ UNCHANGED disconnectedToasts

\* stopMeasurement(type) called from the user interface
StopCall(type) == StopMeasurementCall(type, Null) /\ UNCHANGED isMonitoring

\* the control characteristic was resolved; next await: writeValue(STOP_*)
StopControlResolved(t) ==
  /\ t \in Suspended
  /\ t.op = "stop"
  /\ t.pc = "getControl"
  /\ gattConnected[t.dev]
  /\ inflight' = Advance(t, "writeValue")
  /\ UNCHANGED appVars
  /\ UNCHANGED envVars
  /\ UNCHANGED calls
  /\ UNCHANGED syncVars
  /\ UNCHANGED eventVars
  /\ UNCHANGED <<scanVars, functionVars>>
  /\ DataContextFollows(<<>>)
  /\ UNCHANGED disconnectedToasts
  /\ UNCHANGED isMonitoring

\* writeValue resolved and the closure holds a characteristic: next await:
\* stopNotifications
StopWritten(t) ==
  /\ t \in Suspended
  /\ t.op = "stop"
  /\ t.pc = "writeValue"
  /\ gattConnected[t.dev]
  /\ t.nc # NoCharacteristic
  /\ inflight' = Advance(t, "stopNotifications")
  /\ UNCHANGED appVars
  /\ UNCHANGED envVars
  /\ UNCHANGED calls
  /\ UNCHANGED syncVars
  /\ UNCHANGED eventVars
  /\ UNCHANGED <<scanVars, functionVars>>
  /\ DataContextFollows(<<>>)
  /\ UNCHANGED disconnectedToasts
  /\ UNCHANGED isMonitoring

\* writeValue resolved and the closure holds no characteristic:
\* setIsMeasuring(false), return true; the call is back in stopMeasurement
\* of the provider, resumed at its `await measurement.stop...Measurement()`
StopWrittenNoCharacteristic(t) ==
  /\ t \in Suspended
  /\ t.op = "stop"
  /\ t.pc = "writeValue"
  /\ gattConnected[t.dev]
  /\ t.nc = NoCharacteristic
  /\ isMeasuring' = [isMeasuring EXCEPT ![t.type] = FALSE]
  /\ inflight' = Advance(t, "hookReturned")
  /\ UNCHANGED <<device, isConnected, isConnecting, notificationCharacteristics,
                 intervalHandle, activeTimers>>
  /\ UNCHANGED envVars
  /\ UNCHANGED calls
  /\ UNCHANGED syncVars
  /\ UNCHANGED eventVars
  /\ UNCHANGED <<scanVars, functionVars>>
  /\ DataContextFollows(<<>>)
  /\ UNCHANGED disconnectedToasts
  /\ UNCHANGED isMonitoring

\* stopNotifications resolved: the stored characteristic is set to null,
\* setIsMeasuring(false), return true; the call is back in stopMeasurement
\* of the provider, resumed at its `await measurement.stop...Measurement()`
StopUnsubscribed(t) ==
  /\ t \in Suspended
  /\ t.op = "stop"
  /\ t.pc = "stopNotifications"
  /\ CharacteristicLive(t.nc)
  /\ notifying' = [notifying EXCEPT ![t.nc.dev][t.type] = FALSE]
  /\ notificationCharacteristics' =
       [notificationCharacteristics EXCEPT ![t.type] = NoCharacteristic]
  /\ isMeasuring' = [isMeasuring EXCEPT ![t.type] = FALSE]
  /\ inflight' = Advance(t, "hookReturned")
  /\ UNCHANGED <<device, isConnected, isConnecting, intervalHandle,
                 activeTimers, gattConnected, epoch, dcListeners, handlers>>
  /\ UNCHANGED calls
  /\ UNCHANGED syncVars
  /\ UNCHANGED eventVars
  /\ UNCHANGED <<scanVars, functionVars>>
  /\ DataContextFollows(<<>>)
  /\ UNCHANGED disconnectedToasts
  /\ UNCHANGED isMonitoring

\* stopMeasurement of the provider after the hook's stop function returned
\* true: the interval stored for the type is cleared
StopMeasurementReturns(t) ==
  /\ t \in Suspended
  /\ t.op = "stop"
  /\ t.pc = "hookReturned"
  /\ activeTimers' = TimersAfterClearInterval(activeTimers, intervalHandle, t.type)
  /\ intervalHandle' = ClearedHandle(intervalHandle, t.type)
  /\ inflight' = Return(t)
  /\ UNCHANGED <<device, isConnected, isConnecting, isMeasuring,
                 notificationCharacteristics>>
  /\ UNCHANGED envVars
  /\ UNCHANGED calls
  /\ UNCHANGED syncVars
  /\ UNCHANGED eventVars
  /\ UNCHANGED scanVars
  /\ FacadeReturns(t)
  /\ DataContextFollows(<<>>)
  /\ UNCHANGED disconnectedToasts
  /\ UNCHANGED isMonitoring

\* any of the awaits of the hook's stop function rejected: its catch returns
\* false (no state of the hook changes); the provider clears the interval
StopFailed(t) ==
  /\ t \in Suspended
  /\ t.op = "stop"
  /\ t.pc # "hookReturned"
  /\ activeTimers' = TimersAfterClearInterval(activeTimers, intervalHandle, t.type)
  /\ intervalHandle' = ClearedHandle(intervalHandle, t.type)
  /\ inflight' = Return(t)
  /\ UNCHANGED <<device, isConnected, isConnecting, isMeasuring,
                 notificationCharacteristics>>
  /\ UNCHANGED envVars
  /\ UNCHANGED calls
  /\ UNCHANGED syncVars
  /\ UNCHANGED eventVars
  /\ UNCHANGED scanVars
  /\ FacadeReturns(t)
  /\ DataContextFollows(<<>>)
  /\ UNCHANGED disconnectedToasts
  /\ UNCHANGED isMonitoring

\* ---------------------------------------------------------- scanForDevices
\* elements of a sequence
Range(seq) == {seq[i] : i \in DOMAIN seq}

ScanTask == Call("scan", "requestDevice", Null, Null, NoCharacteristic)

\* ScanCallUnavailable without the resets of isConnecting
ScanCallUnavailableFlagLeft ==
  /\ Budget
  /\ ~bluetoothAvailable
  /\ isConnecting' = TRUE
  /\ scanToast' = Toast("error", "Bluetooth is not available in your browser")
  /\ calls' = calls + 1
  /\ UNCHANGED <<device, isConnected, isMeasuring, notificationCharacteristics,
                 intervalHandle, activeTimers>>
  /\ UNCHANGED <<envVars, syncVars, eventVars, functionVars, inflight>>
  /\ UNCHANGED <<availableDevices, bluetoothAvailable>>
  /\ DataContextFollows(<<>>)
  /\ UNCHANGED disconnectedToasts
  /\ UNCHANGED isMonitoring

\* scanForDevices without navigator.bluetooth: setIsConnecting(true),
\* toast.error, setIsConnecting(false), return (and finally).
ScanCallUnavailable ==
  /\ Budget
  /\ ~bluetoothAvailable
  /\ isConnecting' = FALSE
  /\ scanToast' = Toast("error", "Bluetooth is not available in your browser")
  /\ calls' = calls + 1
  /\ UNCHANGED <<device, isConnected, isMeasuring, notificationCharacteristics,
                 intervalHandle, activeTimers>>
  /\ UNCHANGED <<envVars, syncVars, eventVars, functionVars, inflight>>
  /\ UNCHANGED <<availableDevices, bluetoothAvailable>>
  /\ DataContextFollows(<<>>)
  /\ UNCHANGED disconnectedToasts
  /\ UNCHANGED isMonitoring

\* scanForDevices: setIsConnecting(true), toast.info, then
\* navigator.bluetooth.requestDevice is awaited.
ScanCall ==
  /\ Budget
  /\ Room
  /\ bluetoothAvailable
  /\ isConnecting' = TRUE
  /\ scanToast' = Toast("info", "Scanning for devices...")
  /\ inflight' = Suspend(ScanTask)
  /\ calls' = calls + 1
  /\ UNCHANGED <<device, isConnected, isMeasuring, notificationCharacteristics,
                 intervalHandle, activeTimers>>
  /\ UNCHANGED <<envVars, syncVars, eventVars, functionVars>>
  /\ UNCHANGED <<availableDevices, bluetoothAvailable>>
  /\ DataContextFollows(<<>>)
  /\ UNCHANGED disconnectedToasts
  /\ UNCHANGED isMonitoring

\* what every way out of scanForDevices after the await leaves alone;
\* finally: setIsConnecting(false)
ScanReturns(t) ==
  /\ t \in Suspended
  /\ t.op = "scan"
  /\ isConnecting' = FALSE
  /\ inflight' = Return(t)
  /\ UNCHANGED <<device, isConnected, isMeasuring, notificationCharacteristics,
                 intervalHandle, activeTimers>>
  /\ UNCHANGED <<envVars, syncVars, eventVars, functionVars, calls>>
  /\ UNCHANGED bluetoothAvailable
  /\ DataContextFollows(<<>>)
  /\ UNCHANGED disconnectedToasts
  /\ UNCHANGED isMonitoring

\* ScanFound with the device appended whether it is listed or not
ScanFoundAlwaysAppends(t, d) ==
  /\ ScanReturns(t)
  /\ availableDevices' = Append(availableDevices, d)
  /\ scanToast' = Toast("success", "Scan complete")

\* requestDevice resolved with the device the user chose: it is appended to
\* availableDevices unless a device with its id is listed.
ScanFound(t, d) ==
  /\ ScanReturns(t)
  /\ availableDevices' =
       IF \E i \in DOMAIN availableDevices : availableDevices[i] = d
         THEN availableDevices
         ELSE Append(availableDevices, d)
  /\ scanToast' = Toast("success", "Scan complete")

\* requestDevice rejected with NotFoundError: the user closed the chooser.
ScanCancelled(t) ==
  /\ ScanReturns(t)
  /\ scanToast' = Toast("error", "No devices found or user cancelled")
  /\ UNCHANGED availableDevices

\* messages of the errors requestDevice rejects with (other than
\* NotFoundError)
ScanErrorMessages == {"boom", "requestDevice() needs a user gesture"}

\* requestDevice rejected with another error, whose message is shown.
ScanFailed(t, message) ==
  /\ ScanReturns(t)
  /\ scanToast' = Toast("error", "Failed to scan: " \o message)
  /\ UNCHANGED availableDevices

\* ---------------------------------------------------------------- syncData
\* healthDataUpdate event; origin is the position in `received` of the
\* notification it was decoded from, 0 for a simulated one.
Event(type, value, origin) ==
  [type |-> type, value |-> value, isReal |-> TRUE, origin |-> origin,
   level |-> Null]
\* the event of type stress: value is data.score, level is data.level
StressEvent(score, level, origin) ==
  [Event("stress", score, origin) EXCEPT !.level = level]

\* values of Math.random(), in hundredths: 0, 0.5 and 0.99
RandomDraws == {0, 50, 99}
\* and 0.29, whose products with 100 and 3000 are rounded below the integer
SimulationDraws == RandomDraws \cup {29}

\* Math.floor(Math.random() * k) for k = 100 and k = 3000 when Math.random()
\* gives the double nearest to r hundredths: the product is a double too, and
\* for 0.29, 0.57 and 0.58 it is rounded to just below the integer
\* (0.29 * 100 is 28.999999999999996), so the floor is one less.  The other
\* products of the code (k = 15, 20, 30, 41, after the addition where the
\* code adds first) floor to the exact quotient for every r in 0..99.
RoundedBelow == {29, 57, 58}
FloorOfProduct(r, k) ==
  IF r \in RoundedBelow THEN (k * r) \div 100 - 1 ELSE (k * r) \div 100

\* The value simulateDataSync(dataType) puts in its event when Math.random()
\* gives r hundredths: Math.floor(65 + Math.random() * 20) for heartRate,
\* Math.floor(50 + Math.random() * 30) for hrv,
\* 4000 + Math.floor(Math.random() * 3000) for steps, the duration
\* 7 + Math.random() for sleep (kept in tenths of an hour), the score
\* Math.floor(Math.random() * 100) for stress, whose level is high above 70,
\* medium above 30 and low otherwise.
SimulatedValue(type, r) ==
  CASE type = "heartRate" -> 65 + (20 * r) \div 100
    [] type = "hrv" -> 50 + (30 * r) \div 100
    [] type = "steps" -> 4000 + FloorOfProduct(r, 3000)
    [] type = "sleep" -> 70 + r \div 10
    [] type = "stress" -> FloorOfProduct(r, 100)
SimulateDataSync(type, r) ==
  IF type = "stress"
    THEN StressEvent(SimulatedValue(type, r),
                     IF SimulatedValue(type, r) > 70 THEN "high"
                     ELSE IF SimulatedValue(type, r) > 30 THEN "medium"
                     ELSE "low",
                     0)
    ELSE Event(type, SimulatedValue(type, r), 0)

\* the five simulateDataSync calls that end syncData, in their order, and the
\* draws of Math.random() they make
SyncedTypes == <<"heartRate", "hrv", "steps", "sleep", "stress">>
SyncDraws == [1..Len(SyncedTypes) -> SimulationDraws]
\* the draws of the syncs of the sessions in which other calls run beside the
\* sync (SpecDraws takes every element of SyncDraws)
SessionDraws == {<<0, 50, 99, 0, 50>>}
SimulatedSync(draws) ==
  [i \in 1..Len(SyncedTypes) |-> SimulateDataSync(SyncedTypes[i], draws[i])]

\* Readings of the battery_level characteristic (getUint8(0)), and the level
\* Math.floor(Math.random() * 41) + 60 stored when the read fails
BatteryReadings == {35}
FabricatedBattery(r) == (41 * r) \div 100 + 60

\* simulateDataSync(dataType) with Math.random() giving r: the events it
\* dispatches (its switch has no case for bloodOxygen)
SimulatedEvents(type, r) ==
  IF type \in Range(SyncedTypes) THEN <<SimulateDataSync(type, r)>> ELSE <<>>

\* An interval armed by startMeasurement after a failed start fires:
\* simulateDataSync(type) draws r and dispatches its event, which
\* DataProvider handles.
FallbackIntervalFires(type, r) ==
  /\ type \in DOMAIN activeTimers
  /\ activeTimers[type] > 0
  /\ Len(delivered) < MaxEvents
  /\ UNCHANGED received
  /\ UNCHANGED <<appVars, envVars, syncVars, inflight, calls>>
  /\ UNCHANGED <<scanVars, functionVars>>
  /\ delivered' = delivered \o SimulatedEvents(type, r)
  /\ DataContextFollows(SimulatedEvents(type, r))
  /\ UNCHANGED disconnectedToasts
  /\ UNCHANGED isMonitoring

\* toLocaleString() of the clock: the number of the provider call.
Now == calls + 1

SyncTask(pc, d, now, caller) ==
  [op |-> "sync", pc |-> pc, dev |-> d, type |-> Null, nc |-> NoCharacteristic,
   caller |-> caller, currentTime |-> now]

\* syncData with no device in its closure, or one whose link is closed:
\* toast.error, return.
SyncCallNotConnected ==
  /\ Budget
  /\ NoSession
  /\ calls' = calls + 1
  /\ UNCHANGED <<appVars, envVars, syncVars, eventVars, inflight>>
  /\ UNCHANGED <<scanVars, functionVars>>
  /\ DataContextFollows(<<>>)
  /\ UNCHANGED disconnectedToasts
  /\ UNCHANGED isMonitoring

\* syncData with the link of the device of its closure open:
\* dataFetchStatus.syncing, setLastSyncTime, then measurement.syncTime() is
\* awaited (its guard tests the same device; getPrimaryService,
\* getCharacteristic, writeValue of the time packet: one chain of awaits with
\* one catch).
SyncCall(caller) ==
  /\ Budget
  /\ Room
  /\ ~NoSession
  /\ syncing' = TRUE
  /\ lastSyncTime' = Now
  /\ inflight' = Suspend(SyncTask("syncTime", closure.device, Now, caller))
  /\ calls' = calls + 1
  /\ UNCHANGED <<batteryLevel, initialSyncTimers>>
  /\ UNCHANGED <<appVars, envVars, eventVars>>
  /\ UNCHANGED <<scanVars, functionVars>>
  /\ DataContextFollows(<<>>)
  /\ UNCHANGED disconnectedToasts
  /\ UNCHANGED isMonitoring

\* The time packet is written; syncData goes on to the battery service
\* (getPrimaryService, getCharacteristic, readValue: one try block).
SyncTimeWritten(t) ==
  /\ t \in Suspended
  /\ t.op = "sync"
  /\ t.pc = "syncTime"
  /\ gattConnected[t.dev]
  /\ inflight' = Advance(t, "battery")
  /\ UNCHANGED <<appVars, envVars, syncVars, eventVars, calls>>
  /\ UNCHANGED <<scanVars, functionVars>>
  /\ DataContextFollows(<<>>)
  /\ UNCHANGED disconnectedToasts
  /\ UNCHANGED isMonitoring

\* SyncTimeFailed with the rejection escaping syncData: the sync ends there
SyncTimeFailedAborts(t) ==
  /\ t \in Suspended
  /\ t.op = "sync"
  /\ t.pc = "syncTime"
  /\ syncing' = FALSE
  /\ inflight' = Return(t)
  /\ UNCHANGED <<batteryLevel, lastSyncTime, initialSyncTimers>>
  /\ UNCHANGED <<appVars, envVars, eventVars, calls>>
  /\ UNCHANGED <<scanVars, functionVars>>
  /\ DataContextFollows(<<>>)
  /\ UNCHANGED disconnectedToasts
  /\ UNCHANGED isMonitoring

\* A step of measurement.syncTime() rejects: its catch returns false, which
\* syncData ignores.
SyncTimeFailed(t) ==
  /\ t \in Suspended
  /\ t.op = "sync"
  /\ t.pc = "syncTime"
  /\ inflight' = Advance(t, "battery")
  /\ UNCHANGED <<appVars, envVars, syncVars, eventVars, calls>>
  /\ UNCHANGED <<scanVars, functionVars>>
  /\ DataContextFollows(<<>>)
  /\ UNCHANGED disconnectedToasts
  /\ UNCHANGED isMonitoring

\* the rest of syncData after the battery block: five simulated events,
\* finally syncing false
SyncFinish(t, draws) ==
  /\ delivered' = delivered \o SimulatedSync(draws)
  /\ syncing' = FALSE
  /\ inflight' = Return(t)
  /\ UNCHANGED <<lastSyncTime, initialSyncTimers, received>>
  /\ UNCHANGED <<appVars, envVars, calls>>
  /\ UNCHANGED scanVars
  /\ FacadeReturns(t)
  /\ DataContextFollows(SimulatedSync(draws))
  /\ UNCHANGED disconnectedToasts
  /\ UNCHANGED isMonitoring

\* The battery level b is read: setBatteryLevel(battery); the five
\* simulateDataSync calls make the draws `draws`.
SyncBatteryRead(t, b, draws) ==
  /\ t \in Suspended
  /\ t.op = "sync"
  /\ t.pc = "battery"
  /\ gattConnected[t.dev]
  /\ batteryLevel' = b
  /\ SyncFinish(t, draws)

\* The battery block rejects: its catch draws r and stores a level of
\* 60..100; the five simulateDataSync calls make the draws `draws`.
SyncBatteryFailed(t, r, draws) ==
  /\ t \in Suspended
  /\ t.op = "sync"
  /\ t.pc = "battery"
  /\ batteryLevel' = FabricatedBattery(r)
  /\ SyncFinish(t, draws)

\* The timer set by connectToDevice fires.  connectToDevice is memoised with
\* no dependencies, so the syncData it calls is the one of the first render,
\* whose device is null: toast.error, return.
InitialSyncFires ==
  /\ initialSyncTimers > 0
  /\ initialSyncTimers' = initialSyncTimers - 1
  /\ UNCHANGED <<batteryLevel, lastSyncTime, syncing>>
  /\ UNCHANGED <<appVars, envVars, eventVars, inflight, calls>>
  /\ UNCHANGED <<scanVars, functionVars>>
  /\ DataContextFollows(<<>>)
  /\ UNCHANGED disconnectedToasts
  /\ UNCHANGED isMonitoring

\* ---------------------------------------------------------------- syncTime
\* what syncTime of the provider leaves alone
SyncTimeFrame ==
  /\ UNCHANGED <<batteryLevel, syncing, initialSyncTimers>>
  /\ UNCHANGED <<appVars, envVars, eventVars>>
  /\ UNCHANGED <<scanVars, functionVars>>
  /\ DataContextFollows(<<>>)
  /\ UNCHANGED disconnectedToasts
  /\ UNCHANGED isMonitoring

\* syncTime() of the provider without a device or with isConnected false in
\* its closure: toast.error, return false
SyncTimeCallNotConnected ==
  /\ Budget
  /\ IF closure.device = Null THEN TRUE ELSE ~closure.isConnected
  /\ calls' = calls + 1
  /\ UNCHANGED <<lastSyncTime, inflight>>
  /\ SyncTimeFrame

\* syncTime() of the provider with a device and isConnected true in its
\* closure: measurement.syncTime() is awaited.  With the link of the device
\* open it suspends (getPrimaryService, getCharacteristic, writeValue); with
\* the link closed it returns false at once, and so does the provider.
SyncTimeCall ==
  /\ Budget
  /\ closure.device # Null
  /\ closure.isConnected
  /\ IF gattConnected[closure.device]
       THEN /\ Room
            /\ inflight' = Suspend(Call("syncTime", "syncTime", closure.device,
                                        Null, NoCharacteristic))
       ELSE inflight' = inflight
  /\ calls' = calls + 1
  /\ UNCHANGED lastSyncTime
  /\ SyncTimeFrame

\* measurement.syncTime() returned true: setLastSyncTime(new Date()...); the
\* clock reads the number of the provider calls made so far
SyncTimeReturnsTrue(t) ==
  /\ t \in Suspended
  /\ t.op = "syncTime"
  /\ gattConnected[t.dev]
  /\ lastSyncTime' = calls
  /\ inflight' = Return(t)
  /\ UNCHANGED calls
  /\ SyncTimeFrame

\* a step of measurement.syncTime() rejected: it returned false and syncTime
\* of the provider returns false
SyncTimeReturnsFalse(t) ==
  /\ t \in Suspended
  /\ t.op = "syncTime"
  /\ inflight' = Return(t)
  /\ UNCHANGED <<lastSyncTime, calls>>
  /\ SyncTimeFrame

\* ------------------------------------------------------------ notifications
\* A DataView is the sequence of its bytes.
ByteLength(b) == Len(b)
GetUint8(b, i) == b[i + 1]
GetUint16LE(b, i) == b[i + 1] + 256 * b[i + 2]
\* flags & (1 << k), as 0 or 1
FlagBit(flags, k) == (flags \div (2 ^ k)) % 2

\* parseHeartRateData reads past the end of a short DataView: getUint8 and
\* getUint16 throw a RangeError.
HeartRateDecodes(b) ==
  /\ ByteLength(b) >= 1
  /\ ByteLength(b) >= 1 + (IF FlagBit(GetUint8(b, 0), 0) = 0 THEN 1 ELSE 2)
                        + (IF FlagBit(GetUint8(b, 0), 3) = 0 THEN 0 ELSE 2)

\* parseHeartRateData with the energy read at byte 2 whatever the format
parseHeartRateDataEnergyAtTwo(b) ==
  LET flags == GetUint8(b, 0)
      format == FlagBit(flags, 0)
      contactBit == FlagBit(flags, 1)
      energyPresent == FlagBit(flags, 3)
  IN  [heartRate |-> IF format = 0 THEN GetUint8(b, 1) ELSE GetUint16LE(b, 1),
       contactDetected |->
         IF contactBit # 0 THEN {FlagBit(flags, 2) # 0} ELSE {},
       energyExpended |->
         IF energyPresent # 0 THEN {GetUint16LE(b, 2)} ELSE {}]

\* parseHeartRateData; an optional field is the set of its values (empty when
\* undefined).
parseHeartRateData(b) ==
  LET flags == GetUint8(b, 0)
      format == FlagBit(flags, 0)
      contactBit == FlagBit(flags, 1)
      energyPresent == FlagBit(flags, 3)
      nextByteIndex == IF format = 0 THEN 2 ELSE 3
  IN  [heartRate |-> IF format = 0 THEN GetUint8(b, 1) ELSE GetUint16LE(b, 1),
       contactDetected |->
         IF contactBit # 0 THEN {FlagBit(flags, 2) # 0} ELSE {},
       energyExpended |->
         IF energyPresent # 0 THEN {GetUint16LE(b, nextByteIndex)} ELSE {}]

\* the status switch of parseHrvData, parseStressData, parseBloodOxygenData
StatusOf(statusByte) ==
  CASE statusByte = 0 -> "measuring"
    [] statusByte = 1 -> "completed"
    [] OTHER -> "error"

\* parseHrvData with the two-byte format tested before the standard format
parseHrvDataTwoByteFirst(b) ==
  IF ByteLength(b) = 1
    THEN [value |-> 0,
          status |-> IF GetUint8(b, 0) = 1 THEN "completed" ELSE "measuring"]
  ELSE IF ByteLength(b) >= 2
    THEN [value |-> GetUint16LE(b, 0), status |-> "completed"]
  ELSE [value |-> 0, status |-> "measuring"]

parseHrvData(b) ==
  IF ByteLength(b) = 1
    THEN [value |-> 0,
          status |-> IF GetUint8(b, 0) = 1 THEN "completed" ELSE "measuring"]
  ELSE IF ByteLength(b) >= 3
    THEN [value |-> GetUint16LE(b, 1), status |-> StatusOf(GetUint8(b, 0))]
  ELSE IF ByteLength(b) >= 2
    THEN [value |-> GetUint16LE(b, 0), status |-> "completed"]
  ELSE [value |-> 0, status |-> "measuring"]

\* parseStressData with the thresholds of simulateDataSync (> 70, > 30)
parseStressDataSimulatedThresholds(b) ==
  LET score == GetUint8(b, 1)
  IN  [score |-> score,
       level |-> IF score > 70 THEN "high"
                 ELSE IF score > 30 THEN "medium" ELSE "low",
       status |-> StatusOf(GetUint8(b, 0))]

\* parseStressData: status from byte 0, score byte 1, level from the score
parseStressData(b) ==
  LET score == GetUint8(b, 1)
  IN  [score |-> score,
       level |-> IF score < 30 THEN "low"
                 ELSE IF score < 70 THEN "medium" ELSE "high",
       status |-> StatusOf(GetUint8(b, 0))]
\* parseStressData reads bytes 0 and 1
StressDecodes(b) == ByteLength(b) >= 2

\* parseBloodOxygenData: status from byte 0, percentage byte 1
parseBloodOxygenData(b) ==
  [percentage |-> GetUint8(b, 1), status |-> StatusOf(GetUint8(b, 0))]
\* parseBloodOxygenData reads bytes 0 and 1
BloodOxygenDecodes(b) == ByteLength(b) >= 2

\* values a device sends on the heart rate characteristic: 72 in UINT8
\* format, 300 in UINT16 format, and a UINT16 value cut short
HeartRatePayloads == {<<0, 72>>, <<1, 44, 1>>, <<1, 44>>}
\* values a device sends on the HRV characteristic: the standard format with
\* status measuring, completed, error, and the two-byte format
HrvPayloads == {<<0, 50, 0>>, <<1, 50, 0>>, <<2, 50, 0>>, <<50, 0>>}
\* values a device sends on the stress characteristic: scores around the
\* steps of the level with status completed, a score with status measuring
\* and with status error, and a value cut short
StressPayloads ==
  {<<1, 29>>, <<1, 30>>, <<1, 70>>, <<0, 50>>, <<2, 50>>, <<1>>}
\* values a device sends on the blood oxygen characteristic: a percentage
\* with status completed, measuring and error, and a value cut short
BloodOxygenPayloads == {<<1, 97>>, <<0, 95>>, <<2, 97>>, <<1>>}
Payloads(type) ==
  CASE type = "heartRate" -> HeartRatePayloads
    [] type = "hrv" -> HrvPayloads
    [] type = "stress" -> StressPayloads
    [] type = "bloodOxygen" -> BloodOxygenPayloads


\* the listener startHeartRateMeasurement adds: an event for every value
HeartRateHandler(b, origin) ==
  IF HeartRateDecodes(b)
    THEN <<Event("heartRate", parseHeartRateData(b).heartRate, origin)>>
    ELSE <<>>

\* HrvHandler with the status test left out
HrvHandlerAnyStatus(b, origin) ==
  <<Event("hrv", parseHrvData(b).value, origin)>>

\* the listener startHrvMeasurement adds: an event for a completed value
HrvHandler(b, origin) ==
  IF parseHrvData(b).status = "completed"
    THEN <<Event("hrv", parseHrvData(b).value, origin)>>
    ELSE <<>>

\* the listener startStressMeasurement adds: an event for a completed value
\* (a value too short to decode throws in the listener)
StressHandler(b, origin) ==
  IF ~StressDecodes(b) THEN <<>>
  ELSE IF parseStressData(b).status = "completed"
    THEN <<StressEvent(parseStressData(b).score, parseStressData(b).level,
                       origin)>>
    ELSE <<>>

\* the listener startBloodOxygenMeasurement adds: an event for a completed
\* value (a value too short to decode throws in the listener)
BloodOxygenHandler(b, origin) ==
  IF ~BloodOxygenDecodes(b) THEN <<>>
  ELSE IF parseBloodOxygenData(b).status = "completed"
    THEN <<Event("bloodOxygen", parseBloodOxygenData(b).percentage, origin)>>
    ELSE <<>>

Handler(type, b, origin) ==
  CASE type = "heartRate" -> HeartRateHandler(b, origin)
    [] type = "hrv" -> HrvHandler(b, origin)
    [] type = "stress" -> StressHandler(b, origin)
    [] type = "bloodOxygen" -> BloodOxygenHandler(b, origin)

\* the events of n listeners run one after the other
RECURSIVE Repeated(_, _)
Repeated(n, events) == IF n = 0 THEN <<>> ELSE events \o Repeated(n - 1, events)

\* Notify with the event of the previous notification overwritten
NotifyCoalescing(d, type, b) ==
  /\ Budget
  /\ gattConnected[d]
  /\ notifying[d][type]
  /\ handlers[d][type] >= 1
  /\ received' = Append(received, [type |-> type, value |-> b])
  /\ delivered' =
       LET events == Handler(type, b, Len(received) + 1)
       IN  IF events # <<>> /\ delivered # <<>>
             THEN SubSeq(delivered, 1, Len(delivered) - 1) \o events
             ELSE delivered \o events
  /\ calls' = calls + 1
  /\ UNCHANGED <<appVars, envVars, syncVars, inflight>>
  /\ UNCHANGED <<scanVars, functionVars>>
  /\ DataContextFollows(Handler(type, b, Len(received) + 1))
  /\ UNCHANGED disconnectedToasts
  /\ UNCHANGED isMonitoring

\* The device sends the value b on the characteristic of `type`: every
\* characteristicvaluechanged listener added to it runs and dispatches
\* through window.dispatchEvent, which calls the listeners of
\* healthDataUpdate before it returns.
Notify(d, type, b) ==
  /\ Budget
  /\ gattConnected[d]
  /\ notifying[d][type]
  /\ handlers[d][type] >= 1
  /\ received' = Append(received, [type |-> type, value |-> b])
  /\ delivered' = delivered \o
       Repeated(handlers[d][type], Handler(type, b, Len(received) + 1))
  /\ calls' = calls + 1
  /\ UNCHANGED <<appVars, envVars, syncVars, inflight>>
  /\ UNCHANGED <<scanVars, functionVars>>
  /\ DataContextFollows(Repeated(handlers[d][type], Handler(type, b, Len(received) + 1)))
  /\ UNCHANGED disconnectedToasts
  /\ UNCHANGED isMonitoring

\* -------------------------------------------------------- codec and facade
\* thrown by a DataView read past the end of the buffer
RangeError == [error |-> "RangeError"]

\* new Uint8Array([...]) keeps the low eight bits of every element
ToUint8(x) == x % 256

\* a calendar time as new Date() gives it: getFullYear(), getMonth() + 1,
\* getDate(), getHours(), getMinutes(), getSeconds()
Time(year, month, day, hour, minute, second) ==
  [year |-> year, month |-> month, day |-> day,
   hour |-> hour, minute |-> minute, second |-> second]

\* COMMAND_CODES of constants/BluetoothServices
COMMAND_CODES ==
  [START_HEART_RATE |-> <<1, 1>>,
   STOP_HEART_RATE |-> <<1, 0>>,
   ENABLE_TIMING_HEART_RATE |-> <<1, 2>>,
   DISABLE_TIMING_HEART_RATE |-> <<1, 3>>,
   START_HRV |-> <<2, 1>>,
   STOP_HRV |-> <<2, 0>>,
   ENABLE_TIMING_HRV |-> <<2, 2>>,
   DISABLE_TIMING_HRV |-> <<2, 3>>,
   ALT_START_HRV |-> <<16, 1>>,
   ALT_STOP_HRV |-> <<16, 0>>,
   START_STRESS |-> <<3, 1>>,
   STOP_STRESS |-> <<3, 0>>,
   START_BLOOD_OXYGEN |-> <<4, 1>>,
   STOP_BLOOD_OXYGEN |-> <<4, 0>>,
   ENABLE_TIMING_BLOOD_OXYGEN |-> <<4, 2>>,
   DISABLE_TIMING_BLOOD_OXYGEN |-> <<4, 3>>,
   SYNC_TIME_NOW |-> <<5, 1>>,
   DEVICE_RESET |-> <<6, 1>>,
   DEVICE_SHUTDOWN |-> <<6, 2>>]
CommandNames == DOMAIN COMMAND_CODES

\* createTimeBuffer with the high byte of the year left out
createTimeBufferYearLowOnly(now) ==
  [i \in 1..8 |->
     ToUint8(<<COMMAND_CODES.SYNC_TIME_NOW[1], COMMAND_CODES.SYNC_TIME_NOW[2],
               now.year % 256, now.month, now.day, now.hour, now.minute,
               now.second>>[i])]

\* createTimeBuffer, `now` being the reading of the clock
createTimeBuffer(now) ==
  [i \in 1..9 |->
     ToUint8(<<COMMAND_CODES.SYNC_TIME_NOW[1], COMMAND_CODES.SYNC_TIME_NOW[2],
               now.year % 256, (now.year \div 256) % 256,
               now.month, now.day, now.hour, now.minute, now.second>>[i])]

\* createCommandBuffer with the second byte of the command dropped
createCommandBufferFirstByte(command) == <<ToUint8(command[1])>>

\* createCommandBuffer: new Uint8Array(command).buffer
createCommandBuffer(command) == [i \in DOMAIN command |-> ToUint8(command[i])]

\* Math.round of a number given in tenths: the nearest integer, a half
\* rounded up
MathRound(tenths) == (tenths + 5) \div 10

\* createUserInfoBuffer with the bytes clamped to 0..255 (Uint8ClampedArray)
createUserInfoBufferClamped(weight, height, gender, age, stepLength) ==
  [i \in 1..7 |->
     LET x == <<7, 1, MathRound(weight), height, gender, age, stepLength>>[i]
     IN  IF x > 255 THEN 255 ELSE IF x < 0 THEN 0 ELSE x]

\* createUserInfoBuffer; the weight is given in tenths of a kilogram, the
\* other arguments are integers
createUserInfoBuffer(weight, height, gender, age, stepLength) ==
  [i \in 1..7 |->
     ToUint8(<<7, 1, MathRound(weight), height, gender, age, stepLength>>[i])]

\* the commands the hook writes to start and to stop a measurement
StartCommand(type) ==
  CASE type = "heartRate" -> "START_HEART_RATE"
    [] type = "hrv" -> "START_HRV"
    [] type = "stress" -> "START_STRESS"
    [] type = "bloodOxygen" -> "START_BLOOD_OXYGEN"
StopCommand(type) ==
  CASE type = "heartRate" -> "STOP_HEART_RATE"
    [] type = "hrv" -> "STOP_HRV"
    [] type = "stress" -> "STOP_STRESS"
    [] type = "bloodOxygen" -> "STOP_BLOOD_OXYGEN"

\* ---- arguments the functions are applied to
Buffers(bytes, n) == UNION {[1..k -> bytes] : k \in 0..n}
HrvBytes == {0, 1, 2, 50, 255}
HrvBuffers == Buffers(HrvBytes, MaxBufferLen)
StatusBytes == {0, 1, 2, 255}
StressBuffers ==
  {<<st, score>> : st \in StatusBytes, score \in 0..255} \cup {<<>>, <<1>>}
FlagBytes == 0..16
HeartRateBytes == {0, 1, 72, 255}
HeartRateBuffers ==
  {<<f>> \o tail : f \in FlagBytes,
                   tail \in Buffers(HeartRateBytes, MaxBufferLen - 1)}
Times ==
  {Time(y, mo, d, h, mi, sec) :
     y \in {0, 255, 256, 2024, 65535, 65536}, mo \in {1, 12}, d \in {1, 31},
     h \in {0, 23}, mi \in {0, 59}, sec \in {0, 59}}
UserInfos ==
  [weight : {0, 704, 705, 2554, 2555, 3004}, height : {0, 170, 255, 256, 300},
   gender : {0, 1}, age : {30, 255, 256}, stepLength : {70, 511}]

FunctionCalls ==
  [fn : {"parseHrvData"}, arg : HrvBuffers]
    \cup [fn : {"parseStressData"}, arg : StressBuffers]
    \cup [fn : {"parseHeartRateData"}, arg : HeartRateBuffers]
    \cup [fn : {"createTimeBuffer"}, arg : Times]
    \cup [fn : {"createCommandBuffer"}, arg : CommandNames]
    \cup [fn : {"createUserInfoBuffer"}, arg : UserInfos]

\* the function `fn` is applied to its argument and returns `result`
Apply(fn, result) ==
  /\ call.fn = fn
  /\ returned = {}
  /\ returned' = {result}
  /\ UNCHANGED call
  /\ UNCHANGED <<appVars, envVars, syncVars, eventVars, scanVars, inflight,
                 calls>>
  /\ DataContextFollows(<<>>)
  /\ UNCHANGED disconnectedToasts
  /\ UNCHANGED isMonitoring

ApplyParseHrvData == Apply("parseHrvData", parseHrvData(call.arg))
ApplyParseStressData ==
  Apply("parseStressData",
        IF StressDecodes(call.arg) THEN parseStressData(call.arg)
        ELSE RangeError)
ApplyParseHeartRateData ==
  Apply("parseHeartRateData",
        IF HeartRateDecodes(call.arg) THEN parseHeartRateData(call.arg)
        ELSE RangeError)
ApplyCreateTimeBuffer == Apply("createTimeBuffer", createTimeBuffer(call.arg))
ApplyCreateCommandBuffer ==
  Apply("createCommandBuffer", createCommandBuffer(COMMAND_CODES[call.arg]))
ApplyCreateUserInfoBuffer ==
  Apply("createUserInfoBuffer",
        createUserInfoBuffer(call.arg.weight, call.arg.height, call.arg.gender,
                             call.arg.age, call.arg.stepLength))

\* ------------------------------------------------- real-time monitoring
\* names every object literal inherits from Object.prototype, and the member
\* read under such a name (a function, or the prototype object: truthy)
InheritedNames ==
  {"constructor", "hasOwnProperty", "isPrototypeOf", "propertyIsEnumerable",
   "toLocaleString", "toString", "valueOf", "__defineGetter__",
   "__defineSetter__", "__lookupGetter__", "__lookupSetter__", "__proto__"}
Inherited(name) == "Object.prototype." \o name

\* measurementMap[dataType] of startRealTimeMonitoring /
\* stopRealTimeMonitoring (dataType is any string): the own properties, the
\* inherited members, undefined for every other key
measurementMap(dataType) ==
  CASE dataType = "heartRate" -> "heartRate"
    [] dataType = "hrv" -> "hrv"
    [] dataType = "stress" -> "stress"
    [] dataType \in {"sleep", "steps"} -> Null
    [] dataType \in InheritedNames -> Inherited(dataType)
    [] OTHER -> Null

\* setIsMonitoring(prev => ({ ...prev, [dataType]: flag }))
SetIsMonitoring(prev, dataType, flag) ==
  [k \in DOMAIN prev \cup {dataType} |-> IF k = dataType THEN flag ELSE prev[k]]

\* what a DataContext call leaves alone when it reaches no provider call
NoProviderCall ==
  /\ Budget
  /\ calls' = calls + 1
  /\ UNCHANGED <<appVars, envVars, syncVars, eventVars, scanVars, functionVars,
                 inflight, disconnectedToasts>>
  /\ DataContextFollows(<<>>)

\* startRealTimeMonitoring(dataType) while the isConnected of its closure is
\* false: toast.error, return
StartRealTimeMonitoringNotConnected(dataType) ==
  /\ ~closure.isConnected
  /\ NoProviderCall
  /\ UNCHANGED isMonitoring

\* startRealTimeMonitoring(dataType) while the isConnected of its closure is
\* true: the flag is set, then startMeasurement is awaited for a type that
\* has a measurement
StartRealTimeMonitoring(dataType) ==
  /\ closure.isConnected
  /\ isMonitoring' = SetIsMonitoring(isMonitoring, dataType, TRUE)
  /\ IF measurementMap(dataType) # Null
       THEN StartMeasurementCall(measurementMap(dataType), Null)
       ELSE NoProviderCall

\* stopRealTimeMonitoring(dataType): the flag is cleared, then stopMeasurement
\* is awaited for a type that has a measurement (it returns at once without
\* a device or with isConnected false in its closure)
StopRealTimeMonitoring(dataType) ==
  /\ isMonitoring' = SetIsMonitoring(isMonitoring, dataType, FALSE)
  /\ IF /\ measurementMap(dataType) # Null
        /\ closure.device # Null
        /\ closure.isConnected
       THEN StopMeasurementCall(measurementMap(dataType), Null)
       ELSE NoProviderCall

\* Math.floor(65 + Math.random() * 15) when Math.random() gives r hundredths
SimulatedHeartRate(r) == 65 + (15 * r) \div 100
\* draws of the simulation interval: simulated heart rates 65 and 79
TickDraws == {0, 99}

\* React renders the providers with the state as it is: the callbacks made
\* by the render close over it, and DataProvider runs the simulation effect
\* whose dependencies changed: the clean-up clears the interval of the
\* previous run, the body sets a new one when connected without real data.
Render ==
  /\ \/ closure # Rendered(device, isConnected, notificationCharacteristics)
     \/ simulationInterval # SimulationEffect(isConnected, hasRealData)
  /\ closure' = Rendered(device, isConnected, notificationCharacteristics)
  /\ simulationInterval' = SimulationEffect(isConnected, hasRealData)
  /\ UNCHANGED <<appVars, envVars, syncVars, eventVars, scanVars, functionVars,
                 inflight, calls, disconnectedToasts>>
  /\ UNCHANGED <<hasRealData, healthData, isMonitoring>>

\* arguments of updateHealthData: the key and the fields of `value` that are
\* kept in the model, each the set of its values (empty when absent)
HealthDataUpdates ==
  {[key |-> "heartRate", current |-> {30}, isReal |-> {TRUE}],
   [key |-> "heartRate", current |-> {200}, isReal |-> {}],
   [key |-> "hrv", current |-> {}, isReal |-> {TRUE}],
   [key |-> "hrv", current |-> {}, isReal |-> {FALSE}]}

\* updateHealthData(key, value): `value` is merged into healthData[key]
\* (min and max are not recomputed); the record is real, and hasRealData is
\* set, when the isConnected of the render and value.isReal are true.
UpdateHealthData(u) ==
  /\ Budget
  /\ calls' = calls + 1
  /\ hasRealData' = (hasRealData \/ (closure.isConnected /\ u.isReal = {TRUE}))
  /\ healthData' =
       IF u.key = "heartRate" /\ u.current # {}
         THEN [healthData EXCEPT
                 !.heartRate.current = CHOOSE c \in u.current : TRUE]
         ELSE healthData
  /\ UNCHANGED <<appVars, envVars, syncVars, eventVars, scanVars, functionVars,
                 inflight, disconnectedToasts, isMonitoring>>
  /\ RenderFollows

\* The simulation interval of DataProvider fires: a random current heart
\* rate is stored (the step count it also changes is not kept in the model).
Tick ==
  /\ simulationInterval
  /\ \E r \in TickDraws :
       healthData' =
         [healthData EXCEPT !.heartRate.current = SimulatedHeartRate(r)]
  /\ UNCHANGED <<appVars, envVars, syncVars, eventVars, scanVars, functionVars,
                 inflight, calls, disconnectedToasts>>
  /\ UNCHANGED <<hasRealData, isMonitoring>>
  /\ RenderFollows

\* ----------------------------------------------------------- specification
Next ==
  \/ \E d \in Devices : ConnectCall(d)
  \/ \E t \in Suspended : ConnectOk(t)
  \/ \E t \in Suspended : ConnectFail(t)
  \/ DisconnectDevice
  \/ \E t \in Suspended : DisconnectSettled(t)
  \/ \E d \in Devices : LinkLoss(d)
  \/ \E type \in TypeInputs : StartCall(type)
  \/ \E t \in Suspended : StartResolved(t)
  \/ \E t \in Suspended : StartSubscribed(t)
  \/ \E t \in Suspended : StartControlResolved(t)
  \/ \E t \in Suspended : StartWritten(t)
  \/ \E t \in Suspended : StartFailed(t)
  \/ \E type \in TypeInputs : StopCall(type)
  \/ \E t \in Suspended : StopControlResolved(t)
  \/ \E t \in Suspended : StopWritten(t)
  \/ \E t \in Suspended : StopWrittenNoCharacteristic(t)
  \/ \E t \in Suspended : StopUnsubscribed(t)
  \/ \E t \in Suspended : StopMeasurementReturns(t)
  \/ \E t \in Suspended : StopFailed(t)
  \/ Render

Spec == Init /\ [][Next]_vars

\* The session and the synchronisation: syncData touches none of the state of
\* the measurement hook, and the hook none of syncData's.
NextSync ==
  \/ \E d \in Devices : ConnectCall(d)
  \/ \E t \in Suspended : ConnectOk(t)
  \/ \E t \in Suspended : ConnectFail(t)
  \/ DisconnectDevice
  \/ \E t \in Suspended : DisconnectSettled(t)
  \/ DisconnectNoSession
  \/ \E d \in Devices : LinkLoss(d)
  \/ SyncCallNotConnected
  \/ SyncCall(Null)
  \/ \E t \in Suspended : SyncTimeWritten(t)
  \/ \E t \in Suspended : SyncTimeFailed(t)
  \/ \E t \in Suspended : \E b \in BatteryReadings : \E draws \in SessionDraws :
       SyncBatteryRead(t, b, draws)
  \/ \E t \in Suspended : \E r \in RandomDraws : \E draws \in SessionDraws :
       SyncBatteryFailed(t, r, draws)
  \/ InitialSyncFires
  \/ Render
  \/ SyncTimeCallNotConnected
  \/ SyncTimeCall
  \/ \E t \in Suspended : SyncTimeReturnsTrue(t)
  \/ \E t \in Suspended : SyncTimeReturnsFalse(t)

SpecSync == Init /\ [][NextSync]_vars

\* The measurements of one device and the notifications it sends on the
\* characteristics of the four measurement types; the link is closed by
\* disconnectDevice.
NotifyDevices == {"d1"}
NextNotify ==
  \/ \E d \in NotifyDevices : ConnectCall(d)
  \/ \E t \in Suspended : ConnectOk(t)
  \/ \E t \in Suspended : ConnectFail(t)
  \/ DisconnectDevice
  \/ \E t \in Suspended : DisconnectSettled(t)
  \/ \E type \in MeasurementTypes : StartCall(type)
  \/ \E t \in Suspended : StartResolved(t)
  \/ \E t \in Suspended : StartSubscribed(t)
  \/ \E t \in Suspended : StartControlResolved(t)
  \/ \E t \in Suspended : StartWritten(t)
  \/ \E t \in Suspended : StartFailed(t)
  \/ \E type \in MeasurementTypes : StopCall(type)
  \/ \E t \in Suspended : StopControlResolved(t)
  \/ \E t \in Suspended : StopWritten(t)
  \/ \E t \in Suspended : StopWrittenNoCharacteristic(t)
  \/ \E t \in Suspended : StopUnsubscribed(t)
  \/ \E t \in Suspended : StopMeasurementReturns(t)
  \/ \E t \in Suspended : StopFailed(t)
  \/ \E d \in NotifyDevices : \E type \in MeasurementTypes :
       \E b \in Payloads(type) : Notify(d, type, b)
  \/ Render

SpecNotify == Init /\ [][NextNotify]_vars

\* A host with or without Web Bluetooth.
InitScan ==
  /\ InitSession
  /\ InitData
  /\ availableDevices = <<>>
  /\ bluetoothAvailable \in BOOLEAN
  /\ scanToast = NoToast
  /\ call = NoCall
  /\ returned = {}

\* Scans, and connections to the devices the scans found.
NextScan ==
  \/ ScanCallUnavailable
  \/ ScanCall
  \/ \E t \in Suspended : \E d \in Devices : ScanFound(t, d)
  \/ \E t \in Suspended : ScanCancelled(t)
  \/ \E t \in Suspended : \E message \in ScanErrorMessages : ScanFailed(t, message)
  \/ \E d \in Range(availableDevices) : ConnectCall(d)
  \/ \E t \in Suspended : ConnectOk(t)
  \/ \E t \in Suspended : ConnectFail(t)
  \/ \E d \in Devices : LinkLoss(d)
  \/ Render

SpecScan == InitScan /\ [][NextScan]_vars

\* One function of the codec or of the facade, applied to one argument.
InitFunctions ==
  /\ InitSession
  /\ InitData
  /\ availableDevices = <<>>
  /\ bluetoothAvailable = TRUE
  /\ scanToast = NoToast
  /\ call \in FunctionCalls
  /\ returned = {}

NextFunctions ==
  \/ ApplyParseHrvData
  \/ ApplyParseStressData
  \/ ApplyParseHeartRateData
  \/ ApplyCreateTimeBuffer
  \/ ApplyCreateCommandBuffer
  \/ ApplyCreateUserInfoBuffer

SpecFunctions == InitFunctions /\ [][NextFunctions]_vars

\* The session of one device, the monitoring toggles of DataContext, the
\* heart rate values the device sends and the simulation interval.
\* (a metric with a measurement, one without, and an inherited name)
MonitoringInputs == {"heartRate", "steps", "constructor"}
\* heart rates 40 and 300 on the heart rate characteristic
DataPayloads == {<<0, 40>>, <<1, 44, 1>>}
\* draw of the fallback interval: simulated heart rate 84 (the simulation
\* interval gives 65 and 79)
FallbackDraws == {99}
\* the types startMeasurement can store a fallback interval for
FallbackKeys ==
  TypeInputs \cup ({measurementMap(m) : m \in MonitoringInputs} \ {Null})
NextData ==
  \/ \E d \in NotifyDevices : ConnectCall(d)
  \/ \E t \in Suspended : ConnectOk(t)
  \/ \E t \in Suspended : ConnectFail(t)
  \/ DisconnectDevice
  \/ \E t \in Suspended : DisconnectSettled(t)
  \/ \E d \in NotifyDevices : LinkLoss(d)
  \/ \E m \in MonitoringInputs : StartRealTimeMonitoringNotConnected(m)
  \/ \E m \in MonitoringInputs : StartRealTimeMonitoring(m)
  \/ \E m \in MonitoringInputs : StopRealTimeMonitoring(m)
  \/ \E t \in Suspended : StartResolved(t)
  \/ \E t \in Suspended : StartSubscribed(t)
  \/ \E t \in Suspended : StartControlResolved(t)
  \/ \E t \in Suspended : StartWritten(t)
  \/ \E t \in Suspended : StartFailed(t)
  \/ \E t \in Suspended : StopControlResolved(t)
  \/ \E t \in Suspended : StopWritten(t)
  \/ \E t \in Suspended : StopWrittenNoCharacteristic(t)
  \/ \E t \in Suspended : StopUnsubscribed(t)
  \/ \E t \in Suspended : StopMeasurementReturns(t)
  \/ \E t \in Suspended : StopFailed(t)
  \/ \E d \in NotifyDevices : \E b \in DataPayloads : Notify(d, "heartRate", b)
  \/ \E type \in FallbackKeys : \E r \in FallbackDraws :
       FallbackIntervalFires(type, r)
  \/ Tick
  \/ Render

SpecData == Init /\ [][NextData]_vars

\* startMeasuring(metric), stopMeasuring(metric) or syncNow() (metric Null)
\* of createApiService while the isConnected of its render is false: it
\* returns at once.
FacadeCallNotConnected(fn, metric) ==
  /\ Budget
  /\ ~closure.isConnected
  /\ calls' = calls + 1
  /\ call' = [fn |-> fn, arg |-> metric]
  /\ returned' = {FacadeResult(fn, metric, FALSE, Fulfilled)}
  /\ UNCHANGED <<appVars, envVars, syncVars, eventVars, scanVars, inflight>>
  /\ DataContextFollows(<<>>)
  /\ UNCHANGED disconnectedToasts
  /\ UNCHANGED isMonitoring

\* startMeasuring(metric) while the isConnected of its render is true, up to
\* the first await of startMeasurement(metric), whose promise it awaits
StartMeasuring(metric) ==
  /\ StartMeasurementCall(metric, "startMeasuring")
  /\ UNCHANGED isMonitoring

\* stopMeasuring(metric) while the isConnected of its render is true, up to
\* the first await of stopMeasurement(metric), whose promise it awaits
StopMeasuring(metric) ==
  /\ StopMeasurementCall(metric, "stopMeasuring")
  /\ UNCHANGED isMonitoring

\* syncNow() while the isConnected of its render is true: syncData() is
\* awaited; it returns at once when the link is closed, and is suspended at
\* its first await otherwise
SyncNow ==
  /\ closure.isConnected
  /\ IF NoSession
       THEN /\ Budget
            /\ calls' = calls + 1
            /\ call' = [fn |-> "syncNow", arg |-> Null]
            /\ returned' = {FacadeResult("syncNow", Null, TRUE, Fulfilled)}
            /\ UNCHANGED <<appVars, envVars, syncVars, eventVars, scanVars, inflight>>
            /\ DataContextFollows(<<>>)
            /\ UNCHANGED disconnectedToasts
            /\ UNCHANGED isMonitoring
       ELSE SyncCall("syncNow")

\* The session of one device driven through createApiService, the values the
\* device sends on the stress characteristic, the fallback interval of a
\* failed stress start, and updateHealthData of DataProvider.
FacadeMetrics == {"stress"}
\* draws of simulateDataSync('stress') around the steps of its level, and
\* 0.29, which gives the score 28
StressDraws == {29, 30, 31, 70, 71}
NextFacade ==
  \/ \E d \in NotifyDevices : ConnectCall(d)
  \/ \E t \in Suspended : ConnectOk(t)
  \/ \E t \in Suspended : ConnectFail(t)
  \/ \E d \in NotifyDevices : LinkLoss(d)
  \/ DisconnectDevice
  \/ \E t \in Suspended : DisconnectSettled(t)
  \/ \E fn \in FacadeFunctions \ {"syncNow"} : \E metric \in FacadeMetrics :
       FacadeCallNotConnected(fn, metric)
  \/ FacadeCallNotConnected("syncNow", Null)
  \/ \E metric \in FacadeMetrics : StartMeasuring(metric)
  \/ \E metric \in FacadeMetrics : StopMeasuring(metric)
  \/ SyncNow
  \/ \E t \in Suspended : StartResolved(t)
  \/ \E t \in Suspended : StartSubscribed(t)
  \/ \E t \in Suspended : StartControlResolved(t)
  \/ \E t \in Suspended : StartWritten(t)
  \/ \E t \in Suspended : StartFailed(t)
  \/ \E t \in Suspended : StopControlResolved(t)
  \/ \E t \in Suspended : StopWritten(t)
  \/ \E t \in Suspended : StopWrittenNoCharacteristic(t)
  \/ \E t \in Suspended : StopUnsubscribed(t)
  \/ \E t \in Suspended : StopMeasurementReturns(t)
  \/ \E t \in Suspended : StopFailed(t)
  \/ \E t \in Suspended : SyncTimeWritten(t)
  \/ \E t \in Suspended : SyncTimeFailed(t)
  \/ \E t \in Suspended : \E b \in BatteryReadings : \E draws \in SessionDraws :
       SyncBatteryRead(t, b, draws)
  \/ \E t \in Suspended : \E r \in RandomDraws : \E draws \in SessionDraws :
       SyncBatteryFailed(t, r, draws)
  \/ \E d \in NotifyDevices : \E b \in StressPayloads : Notify(d, "stress", b)
  \/ \E r \in StressDraws : FallbackIntervalFires("stress", r)
  \/ \E u \in HealthDataUpdates : UpdateHealthData(u)
  \/ Tick
  \/ Render

SpecFacade == Init /\ [][NextFacade]_vars

\* syncData of one device with every combination of the draws of its five
\* simulateDataSync calls, and the simulation effect of DataProvider; a sync
\* ends here while fewer than MaxEvents events have been dispatched.
NextDraws ==
  \/ \E d \in NotifyDevices : ConnectCall(d)
  \/ \E t \in Suspended : ConnectOk(t)
  \/ SyncCall(Null)
  \/ \E t \in Suspended : SyncTimeWritten(t)
  \/ \E t \in Suspended : SyncTimeFailed(t)
  \/ /\ Len(delivered) < MaxEvents
     /\ \E t \in Suspended : \E b \in BatteryReadings : \E draws \in SyncDraws :
          SyncBatteryRead(t, b, draws)
  \/ /\ Len(delivered) < MaxEvents
     /\ \E t \in Suspended : \E r \in RandomDraws : \E draws \in SyncDraws :
          SyncBatteryFailed(t, r, draws)
  \/ Render

SpecDraws == Init /\ [][NextDraws]_vars

TypeOK ==
  /\ device \in Devices \cup {Null}
  /\ isConnected \in BOOLEAN
  /\ isConnecting \in BOOLEAN
  /\ isMeasuring \in [MeasurementTypes -> BOOLEAN]
  /\ DOMAIN intervalHandle = DOMAIN activeTimers
  /\ MeasurementTypes \subseteq DOMAIN intervalHandle
  /\ DOMAIN intervalHandle \subseteq
       MeasurementTypes \cup {Inherited(n) : n \in InheritedNames}
  /\ \A c \in DOMAIN intervalHandle :
       /\ intervalHandle[c] \in BOOLEAN
       /\ activeTimers[c] \in 0..MaxCalls
  /\ gattConnected \in [Devices -> BOOLEAN]
  /\ dcListeners \in [Devices -> 0..MaxCalls]
  /\ \A d \in Devices : epoch[d] \in 0..dcListeners[d]
  /\ \A d \in Devices : \A c \in MeasurementTypes : handlers[d][c] \in 0..MaxCalls
  /\ BagCardinality(inflight) <= MaxTasks
  /\ calls \in 0..MaxCalls
  /\ batteryLevel \in {NoValue} \cup BatteryReadings
                       \cup {FabricatedBattery(r) : r \in RandomDraws}
  /\ lastSyncTime \in {NoValue} \cup 1..MaxCalls
  /\ syncing \in BOOLEAN
  /\ initialSyncTimers \in 0..MaxCalls
  /\ availableDevices \in Seq(Devices)
  /\ Len(availableDevices) <= MaxCalls
  /\ bluetoothAvailable \in BOOLEAN
  /\ scanToast.level \in {Null, "info", "success", "error"}
  /\ call \in FunctionCalls \cup {NoCall}
              \cup [fn : FacadeFunctions, arg : MeasurementTypes \cup {Null}]
  /\ Cardinality(returned) <= 1
  /\ Len(received) <= MaxCalls
  /\ \A k \in DOMAIN received :
       /\ received[k].type \in MeasurementTypes
       /\ received[k].value \in Payloads(received[k].type) \cup DataPayloads
  /\ \A i \in DOMAIN delivered :
       /\ delivered[i].isReal
       /\ delivered[i].origin \in 0..Len(received)
  /\ \A c \in DOMAIN intervalHandle : intervalHandle[c] => activeTimers[c] >= 1
  /\ disconnectedToasts \in 0..MaxCalls
  /\ hasRealData \in BOOLEAN
  /\ simulationInterval \in BOOLEAN
  /\ healthData.heartRate.min <= healthData.heartRate.max
  /\ MonitoringTypes \subseteq DOMAIN isMonitoring
  /\ DOMAIN isMonitoring \subseteq MonitoringTypes \cup InheritedNames
  /\ \A m \in DOMAIN isMonitoring : isMonitoring[m] \in BOOLEAN
  /\ closure.device \in Devices \cup {Null}
  /\ closure.isConnected \in BOOLEAN
  /\ DOMAIN closure.notificationCharacteristics = MeasurementTypes

\* ------------------------------------------------------------------ claims
\* suspended start and stop calls for one measurement type
PendingFor(type) == Pending("start", type) + Pending("stop", type)

\* the hook holds no subscription state for `type`
Released(type) ==
  /\ ~isMeasuring[type]
  /\ notificationCharacteristics[type] = NoCharacteristic

\* C1: a connect that completes while a session is connected (it was called
\* while that session was connected or while its connect was in flight) fails
\* and leaves the session's device, connection state and transport unchanged.
C1_SecondConnectRejected ==
  [][\A t \in Suspended :
       (ConnectOk(t) /\ isConnected) =>
         /\ device' = device
         /\ isConnected' = isConnected
         /\ gattConnected' = gattConnected]_vars

\* C2: at most one device has a transport link opened by connect and not yet
\* closed.
C2_AtMostOneSession ==
  Cardinality({d \in Devices : gattConnected[d]}) <= 1

\* C3: when the link-loss callback of the connected device fires, the session
\* is not connected, every stored notification characteristic is cleared and
\* every is-measuring flag is false afterwards.
C3_LinkLossClears ==
  [][\A d \in Devices :
       (LinkLoss(d) /\ isConnected /\ device = d) =>
         /\ ~isConnected'
         /\ \A c \in MeasurementTypes : Released(c)']_vars

\* C4: a stored notification characteristic for a type exists only while the
\* session is connected and is-measuring of that type is true.
C4_SubscriptionOnlyWhileMeasuring ==
  \A c \in MeasurementTypes :
    notificationCharacteristics[c] # NoCharacteristic =>
      (isConnected /\ isMeasuring[c])

\* C5: is-measuring of a type goes from false to true only in the step in
\* which the start-command write of a start call for that type succeeds, that
\* call having subscribed before (its handler is registered on the open link).
C5_FlagOnlyAfterSubscribeAndWrite ==
  [][\A c \in MeasurementTypes :
       (~isMeasuring[c] /\ isMeasuring'[c]) =>
         \E t \in Suspended :
           /\ t.op = "start"
           /\ t.type = c
           /\ t.pc = "writeValue"
           /\ gattConnected[t.dev]
           /\ handlers[t.dev][c] >= 1
           /\ inflight' = Return(t)]_vars

\* C5 witness: a start call has succeeded, the flag is true.
C5_Witness ==
  \E c \in TypeInputs :
    /\ isMeasuring[c]
    /\ notificationCharacteristics[c] # NoCharacteristic
    /\ PendingFor(c) = 0

\* C6: a start call that fails (alone for its type, flag false) leaves the
\* flag false and no stored characteristic, enabled notification or handler
\* for that type.
C6_FailedStartLeavesNothingArmed ==
  [][\A t \in Suspended :
       (StartFailed(t) /\ ~isMeasuring[t.type] /\ PendingFor(t.type) = 1) =>
         /\ Released(t.type)'
         /\ ~notifying'[t.dev][t.type]
         /\ handlers'[t.dev][t.type] = 0]_vars

\* C7: when a stop call returns, whether its write and its unsubscribe
\* succeeded or not, is-measuring of its type is false.
C7_StopAlwaysClearsFlag ==
  [][\A t \in Suspended :
       (StopFailed(t) \/ StopUnsubscribed(t) \/ StopWrittenNoCharacteristic(t))
         => ~isMeasuring'[t.type]]_vars

\* C8: start and stop calls for the same type are mutually exclusive: no two
\* of them are suspended in their transport steps at the same time.
C8_SameTypeCallsExclusive ==
  \A c \in TypeInputs : PendingFor(c) <= 1

\* C9: at most one notification handler is registered on the characteristic
\* of a type.
C9_SingleHandler ==
  \A d \in Devices : \A c \in MeasurementTypes : handlers[d][c] <= 1

\* C10: once disconnectDevice has completed, no notification characteristic
\* is stored and every is-measuring flag is false.
C10_DisconnectReleases ==
  [][\A t \in Suspended :
       DisconnectSettled(t) =>
         /\ ~isConnected'
         /\ \A c \in MeasurementTypes : Released(c)']_vars

\* C11: disconnectDevice called while the session is idle (not connected, no
\* connect under way) changes no state, and a call of disconnectDevice that
\* has completed leaves the session not connected: a second call in a row
\* finds the session idle and leaves the state the first call left.
C11_DisconnectIdempotent ==
  [][/\ (/\ ~isConnected
         /\ ~isConnecting
         /\ (DisconnectDevice \/ DisconnectNoSession)) =>
          UNCHANGED <<appVars, envVars, syncVars, eventVars, inflight>>
     /\ \A t \in Suspended : DisconnectSettled(t) => ~isConnected']_vars

\* C12: whenever the session is not connected, batteryLevel is null.
C12_BatteryNullWithoutSession ==
  ~isConnected => batteryLevel = NoValue

\* C13: after a connect attempt whose gatt.connect() fails the session is not
\* connected, the connecting flag is false and no device is stored.
C13_FailedConnectBackToIdle ==
  [][\A t \in Suspended :
       ConnectFail(t) =>
         /\ ~isConnected'
         /\ ~isConnecting'
         /\ device' = Null]_vars

\* C14: syncData called while the session is not connected starts no
\* transport operation, dispatches no event and leaves lastSyncTime and
\* batteryLevel unchanged.
C14_SyncRequiresSession ==
  [][(~isConnected /\ (SyncCall(Null) \/ SyncCallNotConnected)) =>
       /\ inflight' = inflight
       /\ delivered' = delivered
       /\ lastSyncTime' = lastSyncTime
       /\ batteryLevel' = batteryLevel
       /\ UNCHANGED envVars]_vars

\* the battery block of the sync t rejects (a step of NextSync)
SyncBatteryFails(t) ==
  /\ t.pc = "battery"
  /\ inflight' = Return(t)
  /\ \E r \in RandomDraws : \E draws \in SessionDraws : SyncBatteryFailed(t, r, draws)

\* the battery level of the sync t is read (a step of NextSync)
SyncBatteryReads(t) ==
  /\ t.pc = "battery"
  /\ inflight' = Return(t)
  /\ \E b \in BatteryReadings : \E draws \in SessionDraws : SyncBatteryRead(t, b, draws)

\* C15: a syncData whose time synchronisation fails goes on to the battery
\* read, and whether the battery read fails or not the five data items are
\* dispatched and the sync ends with syncing false.
C15_SyncNeverAbortsEarly ==
  [][\A t \in Suspended :
       /\ SyncTimeFailed(t) =>
            [t EXCEPT !.pc = "battery"] \in BagToSet(inflight')
       /\ (SyncBatteryFails(t) \/ SyncBatteryReads(t)) =>
            /\ \E draws \in SessionDraws :
                 delivered' = delivered \o SimulatedSync(draws)
            /\ ~syncing'
            /\ inflight' = Return(t)]_vars

\* C15 witness: a sync whose battery read failed has completed.
C15_Witness ==
  /\ \E r \in RandomDraws : batteryLevel = FabricatedBattery(r)
  /\ Len(delivered) = Len(SyncedTypes)
  /\ ~syncing
  /\ inflight = EmptyBag

\* C16: when the battery read of a sync fails, a null batteryLevel stays
\* null.
C16_FailedBatteryReadLeavesNull ==
  [][\A t \in Suspended :
       (batteryLevel = NoValue /\ SyncBatteryFails(t)) =>
         batteryLevel' = NoValue]_vars

\* C17: a sync that completes after the link of its device was lost has not
\* set lastSyncTime: lastSyncTime is not the time that sync took.
C17_NoStampAfterLinkLoss ==
  [][\A t \in Suspended :
       (~gattConnected[t.dev] /\ (SyncBatteryFails(t) \/ SyncBatteryReads(t)))
         => lastSyncTime' # t.currentTime]_vars

\* C18: once the initial sync scheduled by a successful connect has run,
\* lastSyncTime is set.
C18_ConnectSetsLastSyncTime ==
  [][InitialSyncFires => lastSyncTime' # NoValue]_vars

\* the value fits the DataView the decoder of `type` reads (parseHrvData
\* reads no byte the value does not have)
Decodes(type, b) ==
  CASE type = "heartRate" -> HeartRateDecodes(b)
    [] type = "hrv" -> TRUE
    [] type = "stress" -> StressDecodes(b)
    [] type = "bloodOxygen" -> BloodOxygenDecodes(b)

\* the measurement decoded from the value b of a notification of `type`
Decoded(type, b) ==
  CASE type = "heartRate" -> parseHeartRateData(b).heartRate
    [] type = "hrv" -> parseHrvData(b).value
    [] type = "stress" -> parseStressData(b).score
    [] type = "bloodOxygen" -> parseBloodOxygenData(b).percentage

\* the completion status decoded from the value b (heart rate values have
\* none)
DecodedStatus(type, b) ==
  CASE type = "heartRate" -> Null
    [] type = "hrv" -> parseHrvData(b).status
    [] type = "stress" -> parseStressData(b).status
    [] type = "bloodOxygen" -> parseBloodOxygenData(b).status

\* the value decodes and is a heart rate or has the status completed
DecodesCompleted(type, b) ==
  /\ Decodes(type, b)
  /\ type # "heartRate" => DecodedStatus(type, b) = "completed"

\* positions in `delivered` of the events decoded from notification k
EventsOf(k) == {i \in DOMAIN delivered : delivered[i].origin = k}

\* the events a step appends to `delivered`
Dispatched == SubSeq(delivered', Len(delivered) + 1, Len(delivered'))

\* C19 (as stated): every notification of a subscribed characteristic whose
\* value decodes yields a measurement event, whatever the capability (heart
\* rate, HRV, stress, blood oxygen) and the completion status of the decoded
\* value.
C19_EventForEveryNotification ==
  [][\A d \in Devices : \A c \in MeasurementTypes : \A b \in Payloads(c) :
       (Notify(d, c, b) /\ Decodes(c, b)) =>
         Len(delivered') > Len(delivered)]_vars

\* C19 (amended): a notification of a subscribed characteristic whose value
\* decodes yields a measurement event carrying the decoded measurement when
\* the capability is heart rate, and when it is HRV, stress or blood oxygen
\* and the decoded status is completed; a value decoded as measuring or
\* error, or one that does not decode, yields no event.
C19_EventWhenCompleted ==
  [][\A d \in Devices : \A c \in MeasurementTypes : \A b \in Payloads(c) :
       Notify(d, c, b) =>
         /\ SubSeq(delivered', 1, Len(delivered)) = delivered
         /\ DecodesCompleted(c, b) =>
              /\ Dispatched # <<>>
              /\ \A i \in DOMAIN Dispatched :
                   /\ Dispatched[i].type = c
                   /\ Dispatched[i].value = Decoded(c, b)
                   /\ Dispatched[i].origin = Len(received')
         /\ ~DecodesCompleted(c, b) => Dispatched = <<>>]_vars

\* C19 witness: on the stress or the blood oxygen characteristic a value
\* with status measuring or error was received and dropped, and a completed
\* one was received and dispatched.
C19_Witness ==
  \E c \in {"stress", "bloodOxygen"} :
    /\ \E k \in DOMAIN received :
         /\ received[k].type = c
         /\ Decodes(c, received[k].value)
         /\ DecodedStatus(c, received[k].value) # "completed"
         /\ EventsOf(k) = {}
    /\ \E k \in DOMAIN received :
         /\ received[k].type = c
         /\ DecodesCompleted(c, received[k].value)
         /\ EventsOf(k) # {}

\* C20: the events decoded from notifications are dispatched in the order in
\* which the notifications arrived, each event carries the type and the
\* decoded value of the one notification it comes from, and every
\* notification its handler dispatches for has events of its own.
C20_OrderKeptNoCoalescing ==
  /\ \A i, j \in DOMAIN delivered :
       (i < j /\ delivered[i].origin > 0 /\ delivered[j].origin > 0) =>
         delivered[i].origin <= delivered[j].origin
  /\ \A i \in DOMAIN delivered :
       delivered[i].origin > 0 =>
         /\ delivered[i].origin \in DOMAIN received
         /\ delivered[i].type = received[delivered[i].origin].type
         /\ delivered[i].value =
              Decoded(delivered[i].type, received[delivered[i].origin].value)
  /\ \A k \in DOMAIN received :
       DecodesCompleted(received[k].type, received[k].value) => EventsOf(k) # {}

\* C20 witness: two different values arrived on one characteristic and their
\* two events were dispatched in that order.
C20_Witness ==
  /\ Len(received) = 2
  /\ received[1].type = received[2].type
  /\ received[1].value # received[2].value
  /\ Len(delivered) = 2
  /\ delivered[1].origin = 1
  /\ delivered[2].origin = 2

\* C21: every event flagged isReal carries a value decoded from a device
\* notification, and hasRealData is true only after such an event.
C21_RealMeansHardware ==
  /\ \A i \in DOMAIN delivered : delivered[i].isReal => delivered[i].origin > 0
  /\ hasRealData => \E i \in DOMAIN delivered : delivered[i].origin > 0

\* C23: availableDevices never holds two entries with the same id, and a
\* scan never removes an entry: the list before a step is a prefix of the
\* list after it.
C23_DevicesDeduplicatedAndKept ==
  /\ [](\A i, j \in DOMAIN availableDevices :
         availableDevices[i] = availableDevices[j] => i = j)
  /\ [][/\ Len(availableDevices') >= Len(availableDevices)
        /\ SubSeq(availableDevices', 1, Len(availableDevices))
             = availableDevices]_vars

\* C23 witness: after three calls, the last a completed scan, the list holds
\* each device once.
C23_Witness ==
  /\ Len(availableDevices) = Cardinality(Devices)
  /\ calls = 3
  /\ inflight = EmptyBag
  /\ scanToast = Toast("success", "Scan complete")

\* C24: when the user cancels the chooser, the scan shows no error, leaves
\* availableDevices unchanged and ends with the connecting flag false.
C24_CancelIsNoFault ==
  [][\A t \in Suspended :
       ScanCancelled(t) =>
         /\ scanToast'.level # "error"
         /\ availableDevices' = availableDevices
         /\ ~isConnecting']_vars

\* C25: a scan on a host without Web Bluetooth reports the error, suspends
\* at no discovery request, leaves availableDevices unchanged and ends with
\* the connecting flag false; a discovery request is made only on a host
\* with Web Bluetooth.
C25_UnavailableFailsCleanly ==
  [][/\ ScanCallUnavailable =>
          /\ scanToast'.level = "error"
          /\ inflight' = inflight
          /\ availableDevices' = availableDevices
          /\ ~isConnecting'
     /\ ScanCall => bluetoothAvailable]_vars

\* C25 witness: a scan was called on a host without Web Bluetooth.
C25_Witness ==
  /\ ~bluetoothAvailable
  /\ calls >= 1
  /\ scanToast = Toast("error", "Bluetooth is not available in your browser")
  /\ ~isConnecting
  /\ availableDevices = <<>>
  /\ inflight = EmptyBag

\* the function fn has been applied to its argument
Applied(fn) == call.fn = fn /\ returned # {}

\* C22: a facade call returns success = false when no device is connected
\* and when the start or stop behind it failed, and success = true when the
\* start or stop behind it succeeded.
C22_FacadeReportsFailure ==
  [][/\ \A fn \in FacadeFunctions : \A metric \in FacadeMetrics \cup {Null} :
          FacadeCallNotConnected(fn, metric) => \A r \in returned' : ~r.success
     /\ \A t \in Suspended :
          t.caller # Null =>
            /\ (StartFailed(t) \/ StopFailed(t)) =>
                 \A r \in returned' : ~r.success
            /\ (StartWritten(t) \/ StopMeasurementReturns(t)) =>
                 \A r \in returned' : r.success]_vars

\* C26: parseHrvData returns for every buffer, with a status of the three;
\* length 0: value 0, measuring; length 1: value 0, completed iff the byte
\* is 1, else measuring; length 2: the little-endian value, completed;
\* length >= 3: status from byte 0, value from bytes 1-2 little-endian.
C26_HrvDecodeTotal ==
  Applied("parseHrvData") =>
    \A r \in returned :
      LET b == call.arg
          n == Len(b)
      IN  /\ DOMAIN r = {"value", "status"}
          /\ r.status \in {"measuring", "completed", "error"}
          /\ n = 0 => (r.value = 0 /\ r.status = "measuring")
          /\ n = 1 =>
               /\ r.value = 0
               /\ r.status = (IF b[1] = 1 THEN "completed" ELSE "measuring")
          /\ n = 2 => (r.value = b[1] + 256 * b[2] /\ r.status = "completed")
          /\ n >= 3 =>
               /\ r.value = b[2] + 256 * b[3]
               /\ r.status = (IF b[1] = 0 THEN "measuring"
                              ELSE IF b[1] = 1 THEN "completed" ELSE "error")

\* C26 witness: a three-byte buffer with an unknown status byte was decoded.
C26_Witness ==
  /\ Applied("parseHrvData")
  /\ Len(call.arg) = 3
  /\ call.arg[1] = 2
  /\ call.arg[2] = 50

\* C27: parseStressData gives level low for a score below 30, medium for 30
\* to 69, high from 70, the status measuring for byte 0 = 0, completed for 1
\* and error otherwise; [0x01, 0x4B] gives completed, 75, high.
C27_StressLevelStep ==
  (Applied("parseStressData") /\ Len(call.arg) >= 2) =>
    \A r \in returned :
      LET b == call.arg
      IN  /\ DOMAIN r = {"score", "level", "status"}
          /\ r.score = b[2]
          /\ r.level = (IF b[2] <= 29 THEN "low"
                        ELSE IF b[2] <= 69 THEN "medium" ELSE "high")
          /\ r.status = (IF b[1] = 0 THEN "measuring"
                         ELSE IF b[1] = 1 THEN "completed" ELSE "error")
          /\ b = <<1, 75>> =>
               r = [score |-> 75, level |-> "high", status |-> "completed"]

\* C27 witness: a boundary score was decoded.
C27_Witness ==
  /\ Applied("parseStressData")
  /\ Len(call.arg) = 2
  /\ call.arg[2] \in {29, 30, 69, 70}

\* C28: parseHeartRateData reads the rate from byte 1 when bit 0 of the
\* flags is clear and from bytes 1-2 little-endian when it is set; contact
\* detected is undefined unless bit 1 is set and then equals bit 2; energy
\* expended is defined only when bit 3 is set and is then the little-endian
\* pair of bytes after the rate; [0x00, 0x48] gives 72, contact undefined.
C28_HeartRateFollowsFlags ==
  (Applied("parseHeartRateData") /\ returned # {RangeError}) =>
    \A r \in returned :
      LET b == call.arg
          bit0 == b[1] % 2
          bit1 == (b[1] \div 2) % 2
          bit2 == (b[1] \div 4) % 2
          bit3 == (b[1] \div 8) % 2
          after == IF bit0 = 0 THEN 3 ELSE 4
      IN  /\ r.heartRate = (IF bit0 = 0 THEN b[2] ELSE b[2] + 256 * b[3])
          /\ r.contactDetected = (IF bit1 = 1 THEN {bit2 = 1} ELSE {})
          /\ r.energyExpended =
               (IF bit3 = 1 THEN {b[after] + 256 * b[after + 1]} ELSE {})
          /\ b = <<0, 72>> => (r.heartRate = 72 /\ r.contactDetected = {})

\* C28 witness: a two-byte rate followed by the energy was decoded.
C28_Witness ==
  /\ Applied("parseHeartRateData")
  /\ returned # {RangeError}
  /\ call.arg[1] % 2 = 1
  /\ (call.arg[1] \div 8) % 2 = 1
  /\ Len(call.arg) = 5
  /\ call.arg[2] # call.arg[4]

\* the calendar fields read back from bytes 2..8 of a time buffer
DecodeTime(buffer) ==
  Time(buffer[3] + 256 * buffer[4], buffer[5], buffer[6], buffer[7],
       buffer[8], buffer[9])

\* C29: for a time whose year fits in 16 bits createTimeBuffer gives the 9
\* bytes 0x05, 0x01, year low, year high, month, day, hour, minute, second,
\* and the fields read back from it are those of the time.
C29_TimeBufferRoundTrips ==
  (Applied("createTimeBuffer") /\ call.arg.year < 65536) =>
    \A r \in returned :
      /\ Len(r) = 9
      /\ r[1] = 5
      /\ r[2] = 1
      /\ r[3] = call.arg.year % 256
      /\ r[4] = call.arg.year \div 256
      /\ DecodeTime(r) = call.arg

\* C29 witness: a time whose year needs both bytes was encoded.
C29_Witness ==
  /\ Applied("createTimeBuffer")
  /\ call.arg.year = 2024
  /\ call.arg.month = 12

\* the start and stop commands of the capabilities that have commands
CommandPairs ==
  {<<"START_HEART_RATE", "STOP_HEART_RATE">>, <<"START_HRV", "STOP_HRV">>,
   <<"ALT_START_HRV", "ALT_STOP_HRV">>, <<"START_STRESS", "STOP_STRESS">>,
   <<"START_BLOOD_OXYGEN", "STOP_BLOOD_OXYGEN">>}

\* C30: the buffers of the start and the stop command of every capability
\* have two bytes and differ, every buffer made from a catalog command is
\* its two opcode bytes, and no two commands of the catalog have the same
\* opcode pair.
C30_CommandsDistinct ==
  /\ \A p \in CommandPairs :
       /\ Len(createCommandBuffer(COMMAND_CODES[p[1]])) = 2
       /\ Len(createCommandBuffer(COMMAND_CODES[p[2]])) = 2
       /\ createCommandBuffer(COMMAND_CODES[p[1]])
            # createCommandBuffer(COMMAND_CODES[p[2]])
  /\ \A c \in MeasurementTypes :
       <<StartCommand(c), StopCommand(c)>> \in CommandPairs
  /\ \A m, n \in CommandNames :
       COMMAND_CODES[m] = COMMAND_CODES[n] => m = n
  /\ Applied("createCommandBuffer") =>
       \A r \in returned : r = COMMAND_CODES[call.arg] /\ Len(r) = 2

\* C30 witness: the buffer of the alternate HRV start command was made.
C30_Witness ==
  /\ Applied("createCommandBuffer")
  /\ call.arg = "ALT_START_HRV"
  /\ returned = {<<16, 1>>}

\* x kept modulo 256 in one unsigned byte
Wrapped(x, byte) == byte \in 0..255 /\ (x - byte) % 256 = 0

\* C31: createUserInfoBuffer returns the 7 bytes 0x07, 0x01, round(weight),
\* height, gender, age, step length, each numeric field kept modulo 256 and
\* no error raised; a height of 300 is encoded as 44.
C31_UserInfoWrapsSilently ==
  Applied("createUserInfoBuffer") =>
    \A r \in returned :
      /\ DOMAIN r = 1..7
      /\ r[1] = 7
      /\ r[2] = 1
      /\ \E kg \in 0..301 :
           /\ 10 * kg - 5 <= call.arg.weight
           /\ call.arg.weight < 10 * kg + 5
           /\ Wrapped(kg, r[3])
      /\ Wrapped(call.arg.height, r[4])
      /\ Wrapped(call.arg.gender, r[5])
      /\ Wrapped(call.arg.age, r[6])
      /\ Wrapped(call.arg.stepLength, r[7])
      /\ call.arg.height = 300 => r[4] = 44

\* C31 witness: a profile with a height of 300 and a weight of 255.5 kg was
\* encoded.
C31_Witness ==
  /\ Applied("createUserInfoBuffer")
  /\ call.arg.height = 300
  /\ call.arg.weight = 2555
  /\ call.arg.age = 256

\* the level the score stands for
LevelOf(score) ==
  IF score <= 29 THEN "low" ELSE IF score <= 69 THEN "medium" ELSE "high"

\* C36: every stress event, dispatched by the notification handler from the
\* decoder or by simulateDataSync, carries the level of its score: below 30
\* low, 30 to 69 medium, from 70 high.
C36_StressLevelMatchesScore ==
  \A i \in DOMAIN delivered :
    delivered[i].type = "stress" =>
      delivered[i].level = LevelOf(delivered[i].value)

\* a step of the start or stop call t
StepOf(t) ==
  \/ StartResolved(t)
  \/ StartSubscribed(t)
  \/ StartControlResolved(t)
  \/ StartWritten(t)
  \/ StartFailed(t)
  \/ StopControlResolved(t)
  \/ StopWritten(t)
  \/ StopWrittenNoCharacteristic(t)
  \/ StopUnsubscribed(t)
  \/ StopMeasurementReturns(t)
  \/ StopFailed(t)

\* the flag and the stored characteristic of every type but `type` are kept
OthersKept(type) ==
  \A c \in MeasurementTypes \ {type} :
    /\ isMeasuring'[c] = isMeasuring[c]
    /\ notificationCharacteristics'[c] = notificationCharacteristics[c]

\* C32: a start or a stop for one measurement type, in any interleaving with
\* the calls for another type, changes neither the measuring flag nor the
\* stored notification characteristic of the other type.
C32_OtherTypesUntouched ==
  [][/\ \A type \in TypeInputs :
          (StartCall(type) \/ StopCall(type)) => OthersKept(type)
     /\ \A t \in Suspended : StepOf(t) => OthersKept(t.type)]_vars

\* C32 witness: heart rate is measured and subscribed while its stop and a
\* start for HRV are both under way, the HRV one already subscribed.
C32_Witness ==
  /\ isMeasuring["heartRate"]
  /\ notificationCharacteristics["heartRate"] # NoCharacteristic
  /\ notificationCharacteristics["hrv"] # NoCharacteristic
  /\ Pending("stop", "heartRate") = 1
  /\ Pending("start", "hrv") = 1

\* C35: at most one simulated-data interval timer per measurement type is
\* live, and none is live while the session is not connected.
C35_AtMostOneTimer ==
  \A c \in MeasurementTypes :
    /\ activeTimers[c] <= 1
    /\ ~isConnected => activeTimers[c] = 0

\* scanForDevices and connectToDevice calls suspended at their await
ScansAndConnects == {t \in Suspended : t.op \in {"scan", "connect"}}

\* C34: isConnecting is true in every state where a scan or a connect is
\* suspended at its await, and false when none is.
C34_ConnectingTracksInFlight ==
  isConnecting <=> ScansAndConnects # {}

\* C37: a stop that completes leaves the flag false and no characteristic
\* stored; a stop called in that state while connected, with no other call
\* for the type under way, holds no characteristic, never calls
\* stopNotifications and leaves the state as it found it.
C37_StopIdempotent ==
  /\ [](\A t \in Suspended :
          (t.op = "stop" /\ t.nc = NoCharacteristic)
            => t.pc # "stopNotifications")
  /\ [][/\ \A type \in TypeInputs :
             (StopCall(type) /\ Released(type) /\ PendingFor(type) = 0) =>
               \A t \in BagToSet(inflight') :
                 (t.op = "stop" /\ t.type = type) => t.nc = NoCharacteristic
        /\ \A t \in Suspended :
             /\ StopUnsubscribed(t) => Released(t.type)'
             /\ (/\ t.op = "stop"
                 /\ t.nc = NoCharacteristic
                 /\ Released(t.type)
                 /\ StepOf(t))
                  => /\ Released(t.type)'
                     /\ notifying' = notifying]_vars

\* C33: a link loss shows a single disconnect notification and makes a single
\* transition from connected to idle, however often the device was
\* connected before.
C33_SingleDisconnectNotice ==
  [][\A d \in Devices :
       LinkLoss(d) => (disconnectedToasts' = 1 /\ ~isConnected')]_vars

\* C38: hasRealData never goes back to false, not even at a disconnect, and
\* the simulation interval of DataContext is live, and fires, only in states
\* where the session is connected and hasRealData is false.
C38_RealDataSticks ==
  /\ [](simulationInterval => (isConnected /\ ~hasRealData))
  /\ [][/\ hasRealData => hasRealData'
        /\ Tick => (isConnected /\ ~hasRealData)]_vars

\* C39: the cached heart rate has min <= current <= max after every event and
\* every simulation tick; min never increases and max never decreases.
C39_HeartRateWithinBounds ==
  /\ [](/\ healthData.heartRate.min <= healthData.heartRate.current
        /\ healthData.heartRate.current <= healthData.heartRate.max)
  /\ [][/\ healthData'.heartRate.min <= healthData.heartRate.min
        /\ healthData'.heartRate.max >= healthData.heartRate.max]_vars

\* C39 witness: events have lowered min to 40 and raised max to 300.
C39_Witness ==
  /\ healthData.heartRate.min = 40
  /\ healthData.heartRate.max = 300

\* C40: no monitoring flag is set in a state where no device is connected.
C40_MonitoringEndsWithSession ==
  ~isConnected => \A m \in MonitoringTypes : ~isMonitoring[m]

====
